---- MODULE Spec2Model ----
(***************************************************************************)
(* Model of the clinic admin dashboard (EnhancedAppointmentManagement.tsx  *)
(* and Layout.tsx).  The remote document store is a function from          *)
(* appointment ids to documents; every admin client holds the React state  *)
(* of one mounted EnhancedAppointmentManagement component.                 *)
(*                                                                         *)
(* A nullable JavaScript value is modelled as a tuple: << >> is null and   *)
(* <<v>> is the value v.  A JavaScript string that is searched or          *)
(* lower-cased is a tuple of one-character strings.                        *)
(* A Date at local midnight is the number of its calendar day; a Number   *)
(* is an IEEE 754 binary64 value computed exactly.                         *)
(***************************************************************************)
EXTENDS Integers, Sequences, FiniteSets, TLC

VARIABLES
    store,                \* appointments collection: id -> document
    mounted,              \* per client: the component is mounted
    clock,                \* the store's server clock (source of serverTimestamp())
    appointments,         \* per client: useState<Appointment[]>
    isLoading,            \* per client: useState(true)
    viewMode,             \* per client: "pending" | "confirmed" | "all" | "calendar"
    searchTerm,           \* per client: useState("")
    selectedAppointment,  \* per client: Appointment | null
    showDetailModal,      \* per client
    showApprovalModal,    \* per client
    adminNotes,           \* per client: the textarea of the approval modal
    actionLoading,        \* per client
    stats,                \* per client: the memoised stats object
    inflight,             \* per client: queue of updateDoc promises not yet settled
    currentDate,          \* per client: the month the calendar shows (a day number)
    selectedDate,         \* per client: the day selected in the calendar, or null
    dialogAmount,         \* appointment.amount of a refund being confirmed, in cents
    dialogText,           \* the fee and refund the confirm() text shows, or null
    users,                \* per client: useState<AppUser[]>
    listeners,            \* per client: the onSnapshot listeners not yet unsubscribed
    chats,                \* chats collection: thread id -> thread document
    chatMessages,         \* chats/{id}/messages: thread id -> messages, oldest first
    chatMounted,          \* ChatManagementView is mounted
    threads,              \* chat view: useState<ChatThread[]>
    selectedThreadId,     \* chat view: string | null
    messages,             \* chat view: useState<ChatMessage[]>
    newMessage,           \* chat view: the text of the message form
    isLoadingThreads,     \* chat view: useState(true)
    isLoadingMessages,    \* chat view: useState(false)
    chatListeners,        \* chat view: the onSnapshot listeners not yet unsubscribed
    sending,              \* chat view: writes of handleSendMessage not yet settled
    lastAlert,            \* per client: the text of the last alert() it showed, or null
    dashboardUsers,       \* AdminDashboard: useState<AppUser[]>([])
    dashboardAppointments,\* AdminDashboard: useState<Appointment[]>([])
    sortConfig,           \* AllAppointmentsList: { key, direction }
    running,              \* the page is open: AdminDashboard is mounted
    theme,                \* AdminDashboard: "light" | "dark"; while the page is
                          \* closed, the theme it had last
    localStorageTheme,    \* localStorage.getItem("theme"): a string, or null
    isAppReady,           \* AdminDashboard: useState(false)
    authIsReady,          \* AdminDashboard: useState(false)
    user,                 \* AdminDashboard: useState<User | null>(null)
    authUser,             \* the auth provider's signed-in user, or null
    currentPage,          \* AdminDashboard: useState("Dashboard")
    isLoadingData,        \* AdminDashboard: useState(true)
    fetches               \* the calls of fetchData since the page was opened

vars == <<store, mounted, clock, appointments, isLoading, viewMode, searchTerm,
          selectedAppointment, showDetailModal, showApprovalModal, adminNotes,
          actionLoading, stats, inflight, currentDate, selectedDate,
          dialogAmount, dialogText, users, listeners, chats, chatMessages,
          chatMounted, threads, selectedThreadId, messages, newMessage,
          isLoadingThreads, isLoadingMessages, chatListeners, sending,
          lastAlert, dashboardUsers, dashboardAppointments, sortConfig,
          running, theme, localStorageTheme, isAppReady, authIsReady, user,
          authUser, currentPage, isLoadingData, fetches>>

\* The state the lifecycle controller and the list view work on.
lifecycleVars == <<store, mounted, clock, appointments, isLoading, viewMode,
                   searchTerm, selectedAppointment, showDetailModal,
                   showApprovalModal, adminNotes, actionLoading, stats, inflight>>

\* The state of the calendar's month grid.
calendarVars == <<currentDate, selectedDate>>

\* The state of the refund confirmation text.
dialogVars == <<dialogAmount, dialogText>>

\* The appointment view and its collection, without the server clock.
appointmentVars == <<store, mounted, appointments, isLoading, viewMode,
                     searchTerm, selectedAppointment, showDetailModal,
                     showApprovalModal, adminNotes, actionLoading, stats, inflight>>

\* The alert() dialogs of the appointment view.
alertVars == <<lastAlert>>

\* The record sets of AdminDashboard.
collectionVars == <<dashboardUsers, dashboardAppointments>>

\* The sort state of AllAppointmentsList.
sortVars == <<sortConfig>>

\* The theme and its copy in local storage.
themeVars == <<theme, localStorageTheme>>

\* The readiness flags, the signed-in user and the page of AdminDashboard.
authVars == <<running, isAppReady, authIsReady, user, authUser, currentPage>>

\* The one-shot fetch of AdminDashboard.
fetchVars == <<isLoadingData, fetches>>

\* The state of AdminDashboard and of the pages it renders.
dashboardVars == <<collectionVars, sortVars, themeVars, authVars, fetchVars>>

\* The subscriptions of the appointment view and the users list they feed.
sessionVars == <<users, listeners>>

\* The chat collection and the state of ChatManagementView.
chatVars == <<chats, chatMessages, chatMounted, threads, selectedThreadId,
              messages, newMessage, isLoadingThreads, isLoadingMessages,
              chatListeners, sending>>

-----------------------------------------------------------------------------
(* Bounds *)

\* serverTimestamp() values handed out: at most MaxClock writes are committed.
MaxClock == 2

\* updateDoc promises one client may have pending at once.
MaxInFlight == 2

\* The calendar is paged at most this many years away from BaseYear.
YearSpan == 1

\* The largest appointment amount a refund is confirmed for, in cents.
MaxAmountCents == 120

\* Writes of handleSendMessage one chat client may have pending at once.
MaxSending == 2

\* serverTimestamp() values the chat collection hands out.
MaxChatClock == 4

-----------------------------------------------------------------------------
(* Values *)

Null == << >>
Some(v) == <<v>>

AppIds == {"a1", "a2"}

\* The admin clients (browser sessions) that have the component mounted.
Operators == {"op1", "op2"}

\* The snapshot query is orderBy("appointmentDate", "desc"): a1 is the later one.
QueryOrder == <<"a1", "a2">>

\* Denormalised, read-only fields of the two appointments.
UserNameOf(id) == IF id = "a1" THEN <<"J", "a", "n", "e">> ELSE <<"B", "o", "b">>
UserEmailOf(id) == IF id = "a1" THEN <<"j", "@", "x">> ELSE <<"b", "@", "x">>
ServiceNameOf(id) == IF id = "a1" THEN <<"P", "e", "e", "l">> ELSE <<"J", "a", "b">>
AmountOf(id) == IF id = "a1" THEN 500 ELSE 200

\* What the operator may type into the admin-note textarea, and answer to
\* prompt("Please provide a reason for declining:") (Null: prompt cancelled).
NoteInputs == {"", "ok"}
ReasonInputs == {Null, Some(""), Some("no slot")}
SearchInputs == {<< >>, <<"J", "A">>, <<"j", "a", "b">>, <<"x">>, <<"z">>}
ViewModes == {"pending", "confirmed", "all", "calendar"}

\* Appointment.status
AppointmentStatuses == {"pending", "confirmed", "completed", "cancelled", "paid"}

\* A document as the external booking flow creates it (pending, not confirmed),
\* or as an approval in an earlier session left it (confirmed at time 0).
BookedAppointment(id, status, pay) ==
    [id |-> id,
     status |-> status,
     confirmedAt |-> IF status = "pending" THEN Null ELSE Some(0),
     cancelledAt |-> Null,
     cancellationReason |-> Null,
     adminNotes |-> Null,
     updatedAt |-> Some(0),
     paymentStatus |-> pay,
     amount |-> AmountOf(id),
     userName |-> UserNameOf(id),
     userEmail |-> UserEmailOf(id),
     serviceName |-> ServiceNameOf(id)]

-----------------------------------------------------------------------------
(* JavaScript helpers *)

\* String.prototype.toLowerCase on the characters the model uses.
LowerChar(c) ==
    CASE c = "J" -> "j"
      [] c = "A" -> "a"
      [] c = "B" -> "b"
      [] c = "P" -> "p"
      [] OTHER -> c

toLowerCase(s) == [i \in 1..Len(s) |-> LowerChar(s[i])]

\* String.prototype.includes
includes(s, t) ==
    \E i \in 0..(Len(s) - Len(t)) : SubSeq(s, i + 1, i + Len(t)) = t

\* Array.prototype.reduce((sum, app) => sum + app.amount, 0)
RECURSIVE SumAmounts(_)
SumAmounts(apps) ==
    IF apps = << >> THEN 0
    ELSE SumAmounts(SubSeq(apps, 1, Len(apps) - 1)) + apps[Len(apps)].amount

-----------------------------------------------------------------------------
(* JavaScript Date in local time.  A Date at local midnight is the number  *)
(* of its calendar day, counted from 1 January 1970 (day 0); the local     *)
(* time zone has no daylight saving shift, so days are 24 hours apart.     *)

\* The year the component is mounted in.
BaseYear == 2027

\* Number of the first day of year y (ECMAScript DayFromYear).
DayFromYear(y) ==
    365 * (y - 1970) + ((y - 1969) \div 4) - ((y - 1901) \div 100)
        + ((y - 1601) \div 400)

\* ECMAScript InLeapYear, by year.
InLeapYear(y) == (y % 4 = 0 /\ y % 100 # 0) \/ y % 400 = 0

\* Days of a common year before each of its months, and its length.
CumulativeDays == <<0, 31, 59, 90, 120, 151, 181, 212, 243, 273, 304, 334, 365>>

\* Days of year y before its month m (0 = January .. 12 = end of year).
DaysBeforeMonth(y, m) ==
    CumulativeDays[m + 1] + (IF m >= 2 /\ InLeapYear(y) THEN 1 ELSE 0)

\* new Date(year, month, date): month and date may lie outside their range
\* and carry into the neighbouring months and years (ECMAScript MakeDay).
MakeDay(year, month, date) ==
    LET ym == year + (month \div 12)
        mn == month % 12
    IN  DayFromYear(ym) + DaysBeforeMonth(ym, mn) + date - 1

\* ECMAScript YearFromTime, by day.
YearFromTime(d) ==
    IF DayFromYear(1970 + (d \div 365)) <= d
    THEN 1970 + (d \div 365)
    ELSE 1969 + (d \div 365)

RECURSIVE MonthOfYearDay(_, _, _)
MonthOfYearDay(y, dayInYear, m) ==
    IF dayInYear < DaysBeforeMonth(y, m + 1) THEN m ELSE MonthOfYearDay(y, dayInYear, m + 1)

\* ECMAScript MonthFromTime, by day: 0 = January.
MonthFromTime(d) == MonthOfYearDay(YearFromTime(d), d - DayFromYear(YearFromTime(d)), 0)

\* The days the calendar can reach: the years it can be paged to, with the
\* year before and the year after for the cells of the neighbouring months.
FirstDay == DayFromYear(BaseYear - YearSpan - 1)
DayCount == DayFromYear(BaseYear + YearSpan + 2) - FirstDay

\* YearFromTime and MonthFromTime of the reachable days, computed once.
YearTable == [i \in 1..DayCount |-> YearFromTime(FirstDay + i - 1)] \o << >>
MonthTable == [i \in 1..DayCount |-> MonthFromTime(FirstDay + i - 1)] \o << >>

\* Date.prototype.getFullYear.
getFullYear(d) == YearTable[d - FirstDay + 1]

\* Date.prototype.getMonth, 0 = January.
getMonth(d) == MonthTable[d - FirstDay + 1]

\* Date.prototype.getDate, the day of the month from 1.
getDate(d) ==
    d - DayFromYear(getFullYear(d)) - DaysBeforeMonth(getFullYear(d), getMonth(d)) + 1

\* Date.prototype.getDay, 0 = Sunday; 1 January 1970 was a Thursday.
getDay(d) == (d + 4) % 7

\* Date.prototype.setDate: the day n of d's month, carrying when n is
\* outside the month.
setDate(d, n) == MakeDay(getFullYear(d), getMonth(d), n)

-----------------------------------------------------------------------------
(* Calendar logic: the month grid *)

firstDayOfMonth(cur) == MakeDay(getFullYear(cur), getMonth(cur), 1)
lastDayOfMonth(cur) == MakeDay(getFullYear(cur), getMonth(cur) + 1, 0)

\* (Mutation: the leading loop also runs for i = 0.)
LeadingDaysInclusive(first) ==
    [k \in 1..(getDay(first) + 1) |-> setDate(first, getDate(first) - (getDay(first) + 1 - k))]

\* for (i = firstDayOfMonth.getDay(); i > 0; i--) push(first - i days)
LeadingDays(first) ==
    [k \in 1..getDay(first) |-> setDate(first, getDate(first) - (getDay(first) + 1 - k))]

\* for (i = 1; i <= lastDayOfMonth.getDate(); i++) push(new Date(y, m, i))
MonthDays(cur) ==
    LET year == getFullYear(cur)
        month == getMonth(cur)
    IN  [i \in 1..getDate(lastDayOfMonth(cur)) |-> MakeDay(year, month, i)]

\* while (length % 7 !== 0) push(last cell + 1 day)
RECURSIVE TrailingDays(_)
TrailingDays(cells) ==
    IF Len(cells) % 7 = 0
    THEN cells
    ELSE TrailingDays(Append(cells, setDate(cells[Len(cells)], getDate(cells[Len(cells)]) + 1)))

\* The cells of the grid, in row-major order.
daysInMonth(cur) ==
    TrailingDays(LeadingDays(firstDayOfMonth(cur)) \o MonthDays(cur))

\* (Mutation: every cell is rendered as a cell of the current month.)
isCurrentMonthAlways(day, cur) == TRUE

\* The flag a cell is rendered with.
isCurrentMonth(day, cur) == getMonth(day) = getMonth(cur)

\* new Date() when the component mounts: a day of the year BaseYear that is
\* not the first of its month.
MountDays == {MakeDay(BaseYear, 10, 4)}

-----------------------------------------------------------------------------
(* JavaScript Number: IEEE 754 binary64 arithmetic.  A natural number too  *)
(* wide for a machine integer is the tuple of its digits in base LimbBase, *)
(* least significant first; a finite non-negative Number is a record       *)
(* [m, e] that stands for m * 2^e, with m such a natural number.           *)

LimbBase == 2^14

RECURSIVE BitLengthOf(_)
BitLengthOf(n) == IF n = 0 THEN 0 ELSE 1 + BitLengthOf(n \div 2)

LimbBits == BitLengthOf(LimbBase - 1)

\* Bits of a binary64 significand.
SignificandBits == 53

RECURSIVE Limbs(_)
Limbs(n) == IF n = 0 THEN << >> ELSE <<n % LimbBase>> \o Limbs(n \div LimbBase)

RECURSIVE FromLimbs(_)
FromLimbs(x) == IF x = << >> THEN 0 ELSE x[1] + LimbBase * FromLimbs(Tail(x))

\* Drop the zero digits at the most significant end.
RECURSIVE Trim(_)
Trim(x) ==
    IF x # << >> /\ x[Len(x)] = 0 THEN Trim(SubSeq(x, 1, Len(x) - 1)) ELSE x

\* x * k + carry, for a machine integer k below LimbBase.
RECURSIVE TimesSmall(_, _, _)
TimesSmall(x, k, carry) ==
    IF x = << >>
    THEN Limbs(carry)
    ELSE LET t == x[1] * k + carry
         IN  <<t % LimbBase>> \o TimesSmall(Tail(x), k, t \div LimbBase)

\* x + y + carry.
RECURSIVE Plus(_, _, _)
Plus(x, y, carry) ==
    IF x = << >> /\ y = << >>
    THEN Limbs(carry)
    ELSE LET a == IF x = << >> THEN 0 ELSE x[1]
             b == IF y = << >> THEN 0 ELSE y[1]
             t == a + b + carry
         IN  <<t % LimbBase>>
                 \o Plus(IF x = << >> THEN x ELSE Tail(x),
                         IF y = << >> THEN y ELSE Tail(y), t \div LimbBase)

\* x * y.
RECURSIVE Times(_, _)
Times(x, y) ==
    IF y = << >>
    THEN << >>
    ELSE Plus(TimesSmall(x, y[1], 0), <<0>> \o Times(x, Tail(y)), 0)

\* Quotient and remainder of x by a machine integer d, 0 < d <= LimbBase.
RECURSIVE DividedBySmall(_, _)
DividedBySmall(x, d) ==
    IF x = << >>
    THEN [q |-> << >>, r |-> 0]
    ELSE LET hi == DividedBySmall(Tail(x), d)
             cur == hi.r * LimbBase + x[1]
         IN  [q |-> <<cur \div d>> \o hi.q, r |-> cur % d]

BitLength(x) ==
    IF Trim(x) = << >>
    THEN 0
    ELSE LimbBits * (Len(Trim(x)) - 1) + BitLengthOf(Trim(x)[Len(Trim(x))])

\* floor(x / 2^s), and whether a non-zero remainder was dropped.
ShiftRight(x, s) ==
    LET whole == IF s \div LimbBits < Len(x) THEN s \div LimbBits ELSE Len(x)
        d == DividedBySmall(SubSeq(x, whole + 1, Len(x)), 2^(s % LimbBits))
    IN  [q |-> Trim(d.q),
         sticky |-> d.r # 0 \/ \E i \in 1..whole : x[i] # 0]

\* The Number nearest to (x + f) * 2^e, ties to the even significand, where
\* f is 0 when inexact is false and strictly between 0 and 1 otherwise; an
\* inexact x is at least SignificandBits + 1 bits wide.
RoundToNumber(x, inexact, e) ==
    IF BitLength(x) <= SignificandBits
    THEN [m |-> Trim(x), e |-> e]
    ELSE LET s == BitLength(x) - SignificandBits
             t == ShiftRight(x, s - 1)
             q == ShiftRight(t.q, 1).q
             up == /\ t.q[1] % 2 = 1
                   /\ (t.sticky \/ inexact \/ q[1] % 2 = 1)
         IN  [m |-> IF up THEN Trim(Plus(q, <<1>>, 0)) ELSE q, e |-> e + s]

\* The Number a decimal literal or a stored decimal value num/den denotes:
\* the binary64 value nearest to it (0 < den < LimbBase).
NumberOf(num, den) ==
    LET d == DividedBySmall(<<0, 0, 0, 0, 0, 0>> \o Limbs(num), den)
    IN  RoundToNumber(Trim(d.q), d.r # 0, -(6 * LimbBits))

\* The Number a * b of the * operator.
NumberTimes(a, b) == RoundToNumber(Trim(Times(a.m, b.m)), FALSE, a.e + b.e)

\* Number.prototype.toFixed(2) of a Number below 2^52: the integer n for
\* which n / 100 - x is as close to zero as possible, the larger n when there
\* are two.  The string it returns is n / 100 written with two decimals.
toFixed2(x) == (FromLimbs(ShiftRight(TimesSmall(x.m, 200, 0), -x.e).q) + 1) \div 2

\* The literals 0.1 and 0.9 of the refund confirmation.
CancellationFeeRate == NumberOf(1, 10)
RefundRate == NumberOf(9, 10)

\* (amount * 0.1).toFixed(2) and (amount * 0.9).toFixed(2), in cents, for
\* an appointment.amount of cents / 100.
RefundConfirmText(cents) ==
    [fee |-> toFixed2(NumberTimes(NumberOf(cents, 100), CancellationFeeRate)),
     refund |-> toFixed2(NumberTimes(NumberOf(cents, 100), RefundRate))]

-----------------------------------------------------------------------------
(* Derived views *)

\* The "pending" test of filteredAppointments and stats.
IsPendingApp(app) == app.status = "pending" \/ app.confirmedAt = Null

\* The "confirmed" test of filteredAppointments and stats.
IsConfirmedApp(app) == app.status = "confirmed" \/ app.status = "paid"

\* (Mutation: the search compares the strings as they are.)
MatchesSearchCaseSensitive(app, term) ==
    \/ includes(app.userName, term)
    \/ includes(app.userEmail, term)
    \/ includes(app.serviceName, term)

MatchesSearch(app, term) ==
    \/ includes(toLowerCase(app.userName), toLowerCase(term))
    \/ includes(toLowerCase(app.userEmail), toLowerCase(term))
    \/ includes(toLowerCase(app.serviceName), toLowerCase(term))

StatusFiltered(apps, mode) ==
    IF mode = "pending" THEN SelectSeq(apps, IsPendingApp)
    ELSE IF mode = "confirmed" THEN SelectSeq(apps, IsConfirmedApp)
    ELSE apps

filteredAppointments(apps, mode, term) ==
    LET filtered == StatusFiltered(apps, mode)
        Hit(app) == MatchesSearch(app, term)
    IN  IF term # << >> THEN SelectSeq(filtered, Hit) ELSE filtered

\* (Mutation: the stats are computed from the filtered list.)
StatsInputFiltered(apps, mode, term) == filteredAppointments(apps, mode, term)

\* The list the stats memo reads.
StatsInput(apps, mode, term) == apps

ComputeStats(apps) ==
    LET IsCompleted(app) == app.status = "completed"
        IsPaid(app) == app.paymentStatus = "paid"
        IsPaymentPending(app) == app.paymentStatus = "pending"
    IN  [pending |-> Len(SelectSeq(apps, IsPendingApp)),
         confirmed |-> Len(SelectSeq(apps, IsConfirmedApp)),
         completed |-> Len(SelectSeq(apps, IsCompleted)),
         totalRevenue |-> SumAmounts(SelectSeq(apps, IsPaid)),
         pendingPayments |-> SumAmounts(SelectSeq(apps, IsPaymentPending))]

\* What the client renders in the table of the list view.
Listed(op) == filteredAppointments(appointments[op], viewMode[op], searchTerm[op])

-----------------------------------------------------------------------------
(* Subscriptions and the chat collection *)

\* The two listeners the appointment view opens in its mount effect.
AppointmentsListener == "appointments"
UsersListener == "users"
ViewListeners == {AppointmentsListener, UsersListener}

\* The documents a snapshot of collection(db, "users") carries.
UsersCollection == <<[id |-> "u1", email |-> "j@x"], [id |-> "u2", email |-> "b@x"]>>

ThreadIds == {"t1", "t2"}

\* The listener on the chats query, and the one on a thread's messages.
ThreadsListener == <<"chats">>
MessagesListener(t) == <<"chats", t, "messages">>

\* What the operator types into the message form.
MessageInputs == {<< >>, <<" ">>, <<"h", "i">>, <<"o", "k", " ">>}

\* String.prototype.trim(): leading and trailing white space removed.
RECURSIVE TrimStart(_)
TrimStart(str) ==
    IF str # << >> /\ Head(str) = " " THEN TrimStart(Tail(str)) ELSE str

RECURSIVE TrimEnd(_)
TrimEnd(str) ==
    IF str # << >> /\ str[Len(str)] = " "
    THEN TrimEnd(SubSeq(str, 1, Len(str) - 1))
    ELSE str

trim(str) == TrimEnd(TrimStart(str))

\* The threads a snapshot of the chats query carries:
\* orderBy("lastMessageTimestamp", "desc").
ThreadsList ==
    LET n == Cardinality(ThreadIds)
        order == CHOOSE seq \in [1..n -> ThreadIds] :
                    /\ \A i, j \in 1..n : i # j => seq[i] # seq[j]
                    /\ \A i \in 1..(n - 1) :
                          chats[seq[i]].lastMessageTimestamp
                            >= chats[seq[i + 1]].lastMessageTimestamp
    IN  [i \in 1..n |-> [id |-> order[i]] @@ chats[order[i]]]

-----------------------------------------------------------------------------
(* The remote store *)

\* The documents a snapshot of the appointments query carries, in query order.
StoreList == [i \in 1..Len(QueryOrder) |-> store[QueryOrder[i]]]

\* serverTimestamp(): a sentinel the store replaces by its clock at commit.
serverTimestamp == <<"serverTimestamp">>

TimestampFields == {"confirmedAt", "cancelledAt", "updatedAt"}

\* (Mutation: a document that was updated before keeps its fields.)
ApplyUpdateFirstWins(document, data, now) ==
    IF document.updatedAt # Some(0)
    THEN document
    ELSE [f \in (DOMAIN document) \cup (DOMAIN data) |->
            IF f \in DOMAIN data
            THEN IF f \in TimestampFields /\ data[f] = serverTimestamp
                 THEN Some(now)
                 ELSE data[f]
            ELSE document[f]]

\* updateDoc(ref, data) as the store applies it at time now: the fields of data
\* overwrite (or are added to) the document, every other field is kept.
ApplyUpdate(document, data, now) ==
    [f \in (DOMAIN document) \cup (DOMAIN data) |->
        IF f \in DOMAIN data
        THEN IF f \in TimestampFields /\ data[f] = serverTimestamp
             THEN Some(now)
             ELSE data[f]
        ELSE document[f]]

-----------------------------------------------------------------------------
(* The update objects of the four controller operations *)

\* adminNotes || null
NotesOrNull(note) == IF note = "" THEN Null ELSE Some(note)

\* (Mutation: the note is written as typed, "" included.)
ApproveDataNoNull(note) ==
    [status |-> "confirmed",
     confirmedAt |-> serverTimestamp,
     adminNotes |-> Some(note),
     updatedAt |-> serverTimestamp]

\* (Mutation: the approval stamps confirmedAt and leaves status alone.)
ApproveDataStampOnly(note) ==
    [confirmedAt |-> serverTimestamp,
     adminNotes |-> NotesOrNull(note),
     updatedAt |-> serverTimestamp]

ApproveData(note) ==
    [status |-> "confirmed",
     confirmedAt |-> serverTimestamp,
     adminNotes |-> NotesOrNull(note),
     updatedAt |-> serverTimestamp]

\* (Mutation: a decline is stored under a status of its own.)
DeclineDataDeclined(reason, note) ==
    [status |-> "declined",
     cancelledAt |-> serverTimestamp,
     cancellationReason |-> Some(reason),
     adminNotes |-> NotesOrNull(note),
     updatedAt |-> serverTimestamp]

DeclineData(reason, note) ==
    [status |-> "cancelled",
     cancelledAt |-> serverTimestamp,
     cancellationReason |-> Some(reason),
     adminNotes |-> NotesOrNull(note),
     updatedAt |-> serverTimestamp]

\* (Mutation: the completion also stamps confirmedAt.)
CompletedDataStampsConfirmed ==
    [status |-> "completed",
     confirmedAt |-> serverTimestamp,
     updatedAt |-> serverTimestamp]

CompletedData ==
    [status |-> "completed",
     updatedAt |-> serverTimestamp]

\* (Mutation: the computed refund amount is stored with the record.)
RefundDataStoresAmount ==
    [paymentStatus |-> "refunded",
     status |-> "cancelled",
     cancelledAt |-> serverTimestamp,
     cancellationReason |-> Some("Refund requested by patient"),
     refundAmount |-> 0,
     updatedAt |-> serverTimestamp]

RefundData ==
    [paymentStatus |-> "refunded",
     status |-> "cancelled",
     cancelledAt |-> serverTimestamp,
     cancellationReason |-> Some("Refund requested by patient"),
     updatedAt |-> serverTimestamp]

\* An updateDoc call in flight: the handler that issued it, the document id, the
\* appointment object and admin note the handler's closure holds, and the data.
Write(kind, app, note, data) ==
    [kind |-> kind, id |-> app.id, app |-> app, note |-> note, data |-> data]

-----------------------------------------------------------------------------
(* Rendering guards *)

\* A modal is rendered: its backdrop (fixed inset-0 z-50) covers the page.
Rendered(op) == mounted[op] /\ ~isLoading[op]
DetailModalOpen(op) ==
    Rendered(op) /\ showDetailModal[op] /\ selectedAppointment[op] # Null
ApprovalModalOpen(op) ==
    Rendered(op) /\ showApprovalModal[op] /\ selectedAppointment[op] # Null
PageClickable(op) ==
    Rendered(op) /\ ~DetailModalOpen(op) /\ ~ApprovalModalOpen(op)

Elements(seq) == {seq[i] : i \in 1..Len(seq)}

\* {(app.status === "pending" || !app.confirmedAt) && <button>Approve</button>}
ApproveOfferedInList(app) == app.status = "pending" \/ app.confirmedAt = Null

\* (Mutation: the Complete button is rendered in every row.)
CompleteOfferedAlways(app) == TRUE

\* {app.status === "confirmed" && <button>Complete</button>}
CompleteOffered(app) == app.status = "confirmed"

\* {selectedAppointment.status === "pending" && <button>Approve Appointment</button>}
ApproveOfferedInDetail(app) == app.status = "pending"

\* {paymentStatus === "paid" && status !== "cancelled" && <button>Process Refund</button>}
RefundOffered(app) == app.paymentStatus = "paid" /\ app.status # "cancelled"

RECURSIVE TotalInFlight(_)
TotalInFlight(S) ==
    IF S = {} THEN 0
    ELSE LET op == CHOOSE x \in S : TRUE
         IN  Len(inflight[op]) + TotalInFlight(S \ {op})

\* The model stops issuing writes once every timestamp it may hand out is taken.
MayIssue(op) ==
    /\ Len(inflight[op]) < MaxInFlight
    /\ clock + TotalInFlight(Operators) < MaxClock

-----------------------------------------------------------------------------
(* The appointment list of the dashboard and its sort *)

\* Strings that are compared are sequences of UTF-16 code units.
\* "2027-01-05", "2027-01-12"
DateStrings == {<<50,48,50,55,45,48,49,45,48,53>>, <<50,48,50,55,45,48,49,45,49,50>>}
\* "09:00", "10:30"
TimeStrings == {<<48,57,58,48,48>>, <<49,48,58,51,48>>}
\* "Pending", "Confirmed"
StatusStrings == {<<80,101,110,100,105,110,103>>, <<67,111,110,102,105,114,109,101,100>>}
\* "Unknown"
Unknown == <<85,110,107,110,111,119,110>>
\* "Ann", "Anna"
DisplayNames == {<<65,110,110>>, <<65,110,110,97>>}

UserIds == {"u1", "u2"}

\* The rows a list can hold: row i of a list has the document id i.
MaxRows == 3

\* The < of two strings: the first code unit that differs decides, and a
\* proper prefix is smaller.
StringLess(s, t) ==
    \E i \in 1..Len(t) :
        /\ \A j \in 1..(i - 1) : j <= Len(s) /\ s[j] = t[j]
        /\ (i > Len(s) \/ s[i] < t[i])

\* users.find(u => u.id === app.userId)?.displayName || "Unknown"
DisplayNameOf(app) ==
    LET found == SelectSeq(dashboardUsers, LAMBDA u : u.id = app.userId)
    IN  IF found = << >> \/ Head(found).displayName = << >>
        THEN Unknown
        ELSE Head(found).displayName

\* The appointments prop of AllAppointmentsList.
ListAppointments ==
    [i \in 1..Len(dashboardAppointments) |->
        [id       |-> dashboardAppointments[i].id,
         userId   |-> dashboardAppointments[i].userId,
         date     |-> dashboardAppointments[i].date,
         time     |-> dashboardAppointments[i].time,
         status   |-> dashboardAppointments[i].status,
         userName |-> DisplayNameOf(dashboardAppointments[i])]]

\* AdminDashboard's render: the preloader, the initializing text, the login
\* page, or the layout around a page.
Screen ==
    IF ~running THEN "closed"
    ELSE IF ~isAppReady THEN "preloader"
    ELSE IF ~authIsReady THEN "initializing"
    ELSE IF user = Null THEN "login"
    ELSE "layout"

Pages == {"Dashboard", "User Management", "Appointment Management",
          "Chat Management", "Settings"}

\* renderPage(): what the layout holds, or null when there is no layout.
PageShown ==
    IF Screen # "layout" THEN Null
    ELSE IF isLoadingData THEN Some("Loading Clinic Data...")
    ELSE Some(currentPage)

\* isDark ? "light" : "dark"
Toggled(t) == IF t = "dark" THEN "light" ELSE "dark"

\* The column headers that call requestSort.
SortKeys == {"date", "time", "userName", "status"}

InitialSortConfig == [key |-> "date", direction |-> "descending"]

\* The comparator handed to sort().
compare(a, b) ==
    IF StringLess(a[sortConfig.key], b[sortConfig.key])
    THEN (IF sortConfig.direction = "ascending" THEN -1 ELSE 1)
    ELSE IF StringLess(b[sortConfig.key], a[sortConfig.key])
    THEN (IF sortConfig.direction = "ascending" THEN 1 ELSE -1)
    ELSE 0

\* Array.prototype.sort is stable: an item goes behind every item already
\* placed that the comparator does not put after it.
RECURSIVE InsertSorted(_, _)
InsertSorted(sorted, x) ==
    IF sorted = << >> THEN <<x>>
    ELSE IF compare(sorted[Len(sorted)], x) <= 0 THEN Append(sorted, x)
    ELSE Append(InsertSorted(SubSeq(sorted, 1, Len(sorted) - 1), x),
                sorted[Len(sorted)])

RECURSIVE SortItems(_)
SortItems(items) ==
    IF items = << >> THEN << >>
    ELSE InsertSorted(SortItems(SubSeq(items, 1, Len(items) - 1)),
                      items[Len(items)])

\* useMemo over [appointments, sortConfig]; sortConfig is never null.
sortedAppointments == SortItems(ListAppointments)

-----------------------------------------------------------------------------
(* Initial state: the component has just mounted *)

\* The collection when the component mounts: a1 is a paid booking awaiting
\* approval; a2 is either an unpaid booking awaiting approval or a paid booking
\* approved earlier.
InitialStores ==
    {[id \in AppIds |->
        IF id = "a1" THEN BookedAppointment(id, "pending", "paid")
        ELSE BookedAppointment(id, a2[1], a2[2])] :
     a2 \in {<<"pending", "pending">>, <<"confirmed", "paid">>}}

InitLifecycle ==
    /\ store \in InitialStores
    /\ mounted = [op \in Operators |-> op = "op1"]
    /\ clock = 0
    /\ appointments = [op \in Operators |-> << >>]
    /\ isLoading = [op \in Operators |-> TRUE]
    /\ viewMode = [op \in Operators |-> "pending"]
    /\ searchTerm = [op \in Operators |-> << >>]
    /\ selectedAppointment = [op \in Operators |-> Null]
    /\ showDetailModal = [op \in Operators |-> FALSE]
    /\ showApprovalModal = [op \in Operators |-> FALSE]
    /\ adminNotes = [op \in Operators |-> ""]
    /\ actionLoading = [op \in Operators |-> FALSE]
    /\ stats = [op \in Operators |-> ComputeStats(<< >>)]
    /\ inflight = [op \in Operators |-> << >>]

\* useState(new Date()) twice: both hold the time of mounting, which is not
\* a local midnight.
InitCalendar ==
    \E today \in MountDays :
        /\ currentDate = [op \in Operators |-> today]
        /\ selectedDate = [op \in Operators |-> Some([day |-> today, midnight |-> FALSE])]

\* Both listeners of a mounted appointment view are open; no users snapshot
\* has arrived.
InitSession ==
    /\ lastAlert = [op \in Operators |-> Null]
    /\ users = [op \in Operators |-> << >>]
    /\ listeners = [op \in Operators |-> IF mounted[op] THEN ViewListeners ELSE {}]

\* Two threads, each holding one message of its patient; the dashboard shows
\* another page than the chat.
InitChat ==
    /\ chats = [t \in ThreadIds |->
                  [lastMessageText |-> <<"?">>,
                   lastMessageTimestamp |-> IF t = "t1" THEN -2 ELSE -1,
                   unreadByAdmin |-> TRUE]]
    /\ chatMessages = [t \in ThreadIds |->
                          <<[text |-> <<"?">>, senderId |-> t,
                             timestamp |-> IF t = "t1" THEN -2 ELSE -1]>>]
    /\ chatMounted = FALSE
    /\ threads = << >>
    /\ selectedThreadId = Null
    /\ messages = << >>
    /\ newMessage = << >>
    /\ isLoadingThreads = TRUE
    /\ isLoadingMessages = FALSE
    /\ chatListeners = {}
    /\ sending = << >>

\* The useState initial values of AdminDashboard and AllAppointmentsList.
InitDashboardState ==
    /\ dashboardUsers = << >>
    /\ dashboardAppointments = << >>
    /\ sortConfig = InitialSortConfig
    /\ isAppReady = FALSE
    /\ authIsReady = FALSE
    /\ user = Null
    /\ currentPage = "Dashboard"
    /\ isLoadingData = TRUE
    /\ fetches = << >>

\* AdminDashboard as constructed in a browser that never opened it: the theme
\* effect has stored the default theme.
InitDashboard ==
    /\ InitDashboardState
    /\ running = TRUE
    /\ theme = "dark"
    /\ localStorageTheme = Some("dark")
    /\ authUser = Null

Init ==
    /\ InitLifecycle
    /\ InitCalendar
    /\ InitSession
    /\ InitChat
    /\ InitDashboard
    /\ dialogAmount = 0
    /\ dialogText = Null

-----------------------------------------------------------------------------
(* Data sync layer *)

\* The onSnapshot callback of the appointments query: full replace of the list,
\* isLoading cleared; the stats memo ([appointments]) is recomputed on render.
AppointmentsSnapshot(op) ==
    /\ AppointmentsListener \in listeners[op]
    /\ appointments[op] # StoreList \/ isLoading[op]
    /\ appointments' = [appointments EXCEPT ![op] = StoreList]
    /\ isLoading' = [isLoading EXCEPT ![op] = FALSE]
    /\ stats' = [stats EXCEPT ![op] =
                    ComputeStats(StatsInput(StoreList, viewMode[op], searchTerm[op]))]
    /\ UNCHANGED <<dashboardVars, alertVars, chatVars, sessionVars, calendarVars, dialogVars, store, mounted, clock, viewMode, searchTerm, selectedAppointment,
                   showDetailModal, showApprovalModal, adminNotes, actionLoading,
                   inflight>>

\* (Mutation: the users callback also clears the loading flag.)
UsersSnapshotClearsLoading(op) ==
    /\ UsersListener \in listeners[op]
    /\ users[op] # UsersCollection
    /\ users' = [users EXCEPT ![op] = UsersCollection]
    /\ isLoading' = [isLoading EXCEPT ![op] = FALSE]
    /\ UNCHANGED <<dashboardVars, alertVars, chatVars, calendarVars, dialogVars, listeners, store, mounted,
                   clock, appointments, viewMode, searchTerm, selectedAppointment,
                   showDetailModal, showApprovalModal, adminNotes, actionLoading,
                   stats, inflight>>

\* The onSnapshot callback of collection(db, "users"): setUsers only.
UsersSnapshot(op) ==
    /\ UsersListener \in listeners[op]
    /\ users[op] # UsersCollection
    /\ users' = [users EXCEPT ![op] = UsersCollection]
    /\ UNCHANGED <<dashboardVars, alertVars, chatVars, calendarVars, dialogVars, listeners, lifecycleVars>>

\* The component mounts: every useState takes its initial value and the
\* effect with the empty dependency list opens both listeners.
MountView(op) ==
    /\ ~mounted[op]
    /\ mounted' = [mounted EXCEPT ![op] = TRUE]
    /\ listeners' = [listeners EXCEPT ![op] = ViewListeners]
    /\ appointments' = [appointments EXCEPT ![op] = << >>]
    /\ users' = [users EXCEPT ![op] = << >>]
    /\ isLoading' = [isLoading EXCEPT ![op] = TRUE]
    /\ viewMode' = [viewMode EXCEPT ![op] = "pending"]
    /\ searchTerm' = [searchTerm EXCEPT ![op] = << >>]
    /\ selectedAppointment' = [selectedAppointment EXCEPT ![op] = Null]
    /\ showDetailModal' = [showDetailModal EXCEPT ![op] = FALSE]
    /\ showApprovalModal' = [showApprovalModal EXCEPT ![op] = FALSE]
    /\ adminNotes' = [adminNotes EXCEPT ![op] = ""]
    /\ actionLoading' = [actionLoading EXCEPT ![op] = FALSE]
    /\ stats' = [stats EXCEPT ![op] = ComputeStats(<< >>)]
    /\ \E today \in MountDays :
          /\ currentDate' = [currentDate EXCEPT ![op] = today]
          /\ selectedDate' = [selectedDate EXCEPT ![op] =
                                 Some([day |-> today, midnight |-> FALSE])]
    /\ UNCHANGED <<dashboardVars, alertVars, chatVars, dialogVars, store, clock, inflight>>

\* (Mutation: the cleanup releases the appointments listener only.)
UnmountViewKeepsUsersListener(op) ==
    /\ mounted[op]
    /\ inflight[op] = << >>
    /\ mounted' = [mounted EXCEPT ![op] = FALSE]
    /\ listeners' = [listeners EXCEPT ![op] = @ \ {AppointmentsListener}]
    /\ UNCHANGED <<dashboardVars, alertVars, chatVars, calendarVars, dialogVars, users, store, clock,
                   appointments, isLoading, viewMode, searchTerm,
                   selectedAppointment, showDetailModal, showApprovalModal,
                   adminNotes, actionLoading, stats, inflight>>

\* The component unmounts (another page is shown, or the operator signs out):
\* the effect's cleanup calls unsubscribeAppointments() and unsubscribeUsers().
\* The view is taken down between handler runs, with no updateDoc pending.
UnmountView(op) ==
    /\ mounted[op]
    /\ inflight[op] = << >>
    /\ mounted' = [mounted EXCEPT ![op] = FALSE]
    /\ listeners' = [listeners EXCEPT ![op] = @ \ ViewListeners]
    /\ UNCHANGED <<dashboardVars, alertVars, chatVars, calendarVars, dialogVars, users, store, clock,
                   appointments, isLoading, viewMode, searchTerm,
                   selectedAppointment, showDetailModal, showApprovalModal,
                   adminNotes, actionLoading, stats, inflight>>

-----------------------------------------------------------------------------
(* View controls *)

\* onClick={() => setViewMode(mode)}; stats is memoised on [appointments] only.
SetViewMode(op, mode) ==
    /\ PageClickable(op)
    /\ mode # viewMode[op]
    /\ viewMode' = [viewMode EXCEPT ![op] = mode]
    /\ UNCHANGED <<dashboardVars, alertVars, chatVars, sessionVars, calendarVars, dialogVars, store, mounted, clock, appointments, isLoading, searchTerm,
                   selectedAppointment, showDetailModal, showApprovalModal,
                   adminNotes, actionLoading, stats, inflight>>

\* onChange={(e) => setSearchTerm(e.target.value)}
SetSearchTerm(op, term) ==
    /\ PageClickable(op)
    /\ term # searchTerm[op]
    /\ searchTerm' = [searchTerm EXCEPT ![op] = term]
    /\ UNCHANGED <<dashboardVars, alertVars, chatVars, sessionVars, calendarVars, dialogVars, store, mounted, clock, appointments, isLoading, viewMode,
                   selectedAppointment, showDetailModal, showApprovalModal,
                   adminNotes, actionLoading, stats, inflight>>

-----------------------------------------------------------------------------
(* Opening and closing the modals *)

\* The View button of a table row.
ViewFromList(op, app) ==
    /\ PageClickable(op)
    /\ viewMode[op] # "calendar"
    /\ app \in Elements(Listed(op))
    /\ selectedAppointment' = [selectedAppointment EXCEPT ![op] = Some(app)]
    /\ showDetailModal' = [showDetailModal EXCEPT ![op] = TRUE]
    /\ UNCHANGED <<dashboardVars, alertVars, chatVars, sessionVars, calendarVars, dialogVars, store, mounted, clock, appointments, isLoading, viewMode, searchTerm,
                   showApprovalModal, adminNotes, actionLoading, stats, inflight>>

\* A card of the calendar view's day agenda (the operator has navigated to the
\* appointment's day).
ViewFromCalendar(op, app) ==
    /\ PageClickable(op)
    /\ viewMode[op] = "calendar"
    /\ app \in Elements(appointments[op])
    /\ selectedAppointment' = [selectedAppointment EXCEPT ![op] = Some(app)]
    /\ showDetailModal' = [showDetailModal EXCEPT ![op] = TRUE]
    /\ UNCHANGED <<dashboardVars, alertVars, chatVars, sessionVars, calendarVars, dialogVars, store, mounted, clock, appointments, isLoading, viewMode, searchTerm,
                   showApprovalModal, adminNotes, actionLoading, stats, inflight>>

\* The Approve button of a table row: opens the approval modal for that row.
ApproveFromList(op, app) ==
    /\ PageClickable(op)
    /\ viewMode[op] # "calendar"
    /\ app \in Elements(Listed(op))
    /\ ApproveOfferedInList(app)
    /\ selectedAppointment' = [selectedAppointment EXCEPT ![op] = Some(app)]
    /\ showApprovalModal' = [showApprovalModal EXCEPT ![op] = TRUE]
    /\ UNCHANGED <<dashboardVars, alertVars, chatVars, sessionVars, calendarVars, dialogVars, store, mounted, clock, appointments, isLoading, viewMode, searchTerm,
                   showDetailModal, adminNotes, actionLoading, stats, inflight>>

\* The Approve Appointment button of the detail modal.
ApproveFromDetail(op) ==
    /\ DetailModalOpen(op)
    /\ ApproveOfferedInDetail(selectedAppointment[op][1])
    /\ showDetailModal' = [showDetailModal EXCEPT ![op] = FALSE]
    /\ showApprovalModal' = [showApprovalModal EXCEPT ![op] = TRUE]
    /\ UNCHANGED <<dashboardVars, alertVars, chatVars, sessionVars, calendarVars, dialogVars, store, mounted, clock, appointments, isLoading, viewMode, searchTerm,
                   selectedAppointment, adminNotes, actionLoading, stats, inflight>>

\* The Close button, the x button and the backdrop of the detail modal.
CloseDetailModal(op) ==
    /\ DetailModalOpen(op)
    /\ showDetailModal' = [showDetailModal EXCEPT ![op] = FALSE]
    /\ UNCHANGED <<dashboardVars, alertVars, chatVars, sessionVars, calendarVars, dialogVars, store, mounted, clock, appointments, isLoading, viewMode, searchTerm,
                   selectedAppointment, showApprovalModal, adminNotes,
                   actionLoading, stats, inflight>>

\* The Cancel button of the approval modal (disabled while actionLoading).
CancelApprovalModal(op) ==
    /\ ApprovalModalOpen(op)
    /\ ~actionLoading[op]
    /\ showApprovalModal' = [showApprovalModal EXCEPT ![op] = FALSE]
    /\ UNCHANGED <<dashboardVars, alertVars, chatVars, sessionVars, calendarVars, dialogVars, store, mounted, clock, appointments, isLoading, viewMode, searchTerm,
                   selectedAppointment, showDetailModal, adminNotes, actionLoading,
                   stats, inflight>>

\* A click on the approval modal's backdrop (never disabled).
BackdropApprovalModal(op) ==
    /\ ApprovalModalOpen(op)
    /\ showApprovalModal' = [showApprovalModal EXCEPT ![op] = FALSE]
    /\ UNCHANGED <<dashboardVars, alertVars, chatVars, sessionVars, calendarVars, dialogVars, store, mounted, clock, appointments, isLoading, viewMode, searchTerm,
                   selectedAppointment, showDetailModal, adminNotes, actionLoading,
                   stats, inflight>>

\* The admin-notes textarea of the approval modal.
TypeAdminNotes(op, note) ==
    /\ ApprovalModalOpen(op)
    /\ note # adminNotes[op]
    /\ adminNotes' = [adminNotes EXCEPT ![op] = note]
    /\ UNCHANGED <<dashboardVars, alertVars, chatVars, sessionVars, calendarVars, dialogVars, store, mounted, clock, appointments, isLoading, viewMode, searchTerm,
                   selectedAppointment, showDetailModal, showApprovalModal,
                   actionLoading, stats, inflight>>

-----------------------------------------------------------------------------
(* Calendar view *)

CalendarShown(op) == Rendered(op) /\ PageClickable(op) /\ viewMode[op] = "calendar"

\* The Prev and Next buttons: changeMonth(-1) and changeMonth(1).
changeMonth(op, offset) ==
    LET target == MakeDay(getFullYear(currentDate[op]), getMonth(currentDate[op]) + offset, 1)
    IN  /\ CalendarShown(op)
        /\ getFullYear(target) \in (BaseYear - YearSpan)..(BaseYear + YearSpan)
        /\ currentDate' = [currentDate EXCEPT ![op] = target]
        /\ UNCHANGED <<dashboardVars, alertVars, chatVars, sessionVars, lifecycleVars, dialogVars, selectedDate>>

\* The cells the grid renders for the client.
GridCells(op) == Elements(daysInMonth(currentDate[op]))

\* A click on the cell of the grid that shows day.
SelectDay(op, day) ==
    /\ CalendarShown(op)
    /\ selectedDate' =
           IF isCurrentMonth(day, currentDate[op])
           THEN [selectedDate EXCEPT ![op] = Some([day |-> day, midnight |-> TRUE])]
           ELSE selectedDate
    /\ UNCHANGED <<dashboardVars, alertVars, chatVars, sessionVars, lifecycleVars, dialogVars, currentDate>>

-----------------------------------------------------------------------------
(* Refund confirmation text *)

\* handleRefund builds the text of its confirm() call.
ShowRefundConfirm ==
    /\ dialogText = Null
    /\ dialogText' = Some(RefundConfirmText(dialogAmount))
    /\ UNCHANGED <<dashboardVars, alertVars, chatVars, sessionVars, lifecycleVars, calendarVars, dialogAmount>>

\* The operator answers the confirm() call, either way.
AnswerRefundConfirm ==
    /\ dialogText # Null
    /\ dialogText' = Null
    /\ UNCHANGED <<dashboardVars, alertVars, chatVars, sessionVars, lifecycleVars, calendarVars, dialogAmount>>

-----------------------------------------------------------------------------
(* Appointment lifecycle controller: the handlers up to their await *)

Issue(op, w) == inflight' = [inflight EXCEPT ![op] = Append(@, w)]

\* handleApprove, from the approval modal's Approve button (disabled while
\* actionLoading).  Returns at once when nothing is selected.
handleApprove(op) ==
    /\ ApprovalModalOpen(op)
    /\ ~actionLoading[op]
    /\ IF selectedAppointment[op] = Null
       THEN UNCHANGED <<actionLoading, inflight>>
       ELSE /\ MayIssue(op)
            /\ actionLoading' = [actionLoading EXCEPT ![op] = TRUE]
            /\ Issue(op, Write("approve", selectedAppointment[op][1],
                               adminNotes[op], ApproveData(adminNotes[op])))
    /\ UNCHANGED <<dashboardVars, alertVars, chatVars, sessionVars, calendarVars, dialogVars, store, mounted, clock, appointments, isLoading, viewMode, searchTerm,
                   selectedAppointment, showDetailModal, showApprovalModal,
                   adminNotes, stats>>

\* (Mutation: only a cancelled prompt aborts the decline.)
DeclineAbortsOnCancelOnly(reason) == reason = Null

\* if (!reason) return: prompt() returned null (cancelled) or "".
DeclineAborts(reason) == reason = Null \/ reason = Some("")

\* handleDecline, from the approval modal's Decline button (disabled while
\* actionLoading); reason is what prompt() returned.
handleDecline(op, reason) ==
    /\ ApprovalModalOpen(op)
    /\ ~actionLoading[op]
    /\ IF DeclineAborts(reason)
       THEN UNCHANGED <<actionLoading, inflight>>
       ELSE /\ MayIssue(op)
            /\ actionLoading' = [actionLoading EXCEPT ![op] = TRUE]
            /\ Issue(op, Write("decline", selectedAppointment[op][1],
                               adminNotes[op],
                               DeclineData(reason[1], adminNotes[op])))
    /\ UNCHANGED <<dashboardVars, alertVars, chatVars, sessionVars, calendarVars, dialogVars, store, mounted, clock, appointments, isLoading, viewMode, searchTerm,
                   selectedAppointment, showDetailModal, showApprovalModal,
                   adminNotes, stats>>

\* handleMarkCompleted(app.id), from the Complete button of a table row;
\* answer is what confirm() returned.
handleMarkCompleted(op, app, answer) ==
    /\ PageClickable(op)
    /\ viewMode[op] # "calendar"
    /\ app \in Elements(Listed(op))
    /\ CompleteOffered(app)
    /\ IF ~answer
       THEN UNCHANGED inflight
       ELSE /\ MayIssue(op)
            /\ Issue(op, Write("complete", app, "", CompletedData))
    /\ UNCHANGED <<dashboardVars, alertVars, chatVars, sessionVars, calendarVars, dialogVars, store, mounted, clock, appointments, isLoading, viewMode, searchTerm,
                   selectedAppointment, showDetailModal, showApprovalModal,
                   adminNotes, actionLoading, stats>>

\* handleRefund(selectedAppointment), from the detail modal's Process Refund
\* button; answer is what confirm() returned.
handleRefund(op, answer) ==
    /\ DetailModalOpen(op)
    /\ RefundOffered(selectedAppointment[op][1])
    /\ IF ~answer
       THEN UNCHANGED inflight
       ELSE /\ MayIssue(op)
            /\ Issue(op, Write("refund", selectedAppointment[op][1], "",
                               RefundData))
    /\ UNCHANGED <<dashboardVars, alertVars, chatVars, sessionVars, calendarVars, dialogVars, store, mounted, clock, appointments, isLoading, viewMode, searchTerm,
                   selectedAppointment, showDetailModal, showApprovalModal,
                   adminNotes, actionLoading, stats>>

-----------------------------------------------------------------------------
(* The handlers after their await: the updateDoc promise settles *)

ClosesApprovalModal(kind) == kind \in {"approve", "decline"}

\* The text each handler's catch block passes to alert().
FailureAlert(kind) ==
    CASE kind = "approve" -> "Failed to approve appointment"
      [] kind = "decline" -> "Failed to decline appointment"
      [] kind = "complete" -> "Failed to mark as completed"
      [] kind = "refund" -> "Failed to process refund"

\* (appointment.amount * 0.9).toFixed(2), in cents, for each amount an
\* appointment has: pairs of the amount and the result.
RefundedAmounts ==
    {<<AmountOf(id), toFixed2(NumberTimes(NumberOf(AmountOf(id), 1), RefundRate))>> :
        id \in AppIds}

\* The alert of handleRefund's try block; (amount * 0.9).toFixed(2) is given
\* in cents.
RefundProcessedAlert(app) ==
    <<"Refund processed: R",
      (CHOOSE pair \in RefundedAmounts : pair[1] = app.amount)[2],
      " (after 10% fee)">>

\* The client sends its writes to the store in the order it issued them, so
\* the promise that settles next is the oldest one.
Settling(op, w) ==
    /\ mounted[op]
    /\ inflight[op] # << >>
    /\ w = Head(inflight[op])

\* The store commits the write and the promise resolves: the rest of the try
\* block and the finally block run.
WriteSucceeds(op, w) ==
    /\ Settling(op, w)
    /\ store' = [store EXCEPT ![w.id] = ApplyUpdate(@, w.data, clock + 1)]
    /\ clock' = clock + 1
    /\ inflight' = [inflight EXCEPT ![op] = Tail(@)]
    /\ IF ClosesApprovalModal(w.kind)
       THEN /\ showApprovalModal' = [showApprovalModal EXCEPT ![op] = FALSE]
            /\ adminNotes' = [adminNotes EXCEPT ![op] = ""]
            /\ selectedAppointment' = [selectedAppointment EXCEPT ![op] = Null]
            /\ actionLoading' = [actionLoading EXCEPT ![op] = FALSE]
       ELSE UNCHANGED <<showApprovalModal, adminNotes, selectedAppointment,
                        actionLoading>>
    /\ lastAlert' = IF w.kind = "refund"
                    THEN [lastAlert EXCEPT ![op] = Some(RefundProcessedAlert(w.app))]
                    ELSE lastAlert
    /\ UNCHANGED <<dashboardVars, chatVars, sessionVars, calendarVars, dialogVars, mounted, appointments, isLoading,
                   viewMode, searchTerm, showDetailModal, stats>>

\* (Mutation: setActionLoading(false) runs in the try block only.)
WriteFailsKeepsLoading(op, w) ==
    /\ Settling(op, w)
    /\ inflight' = [inflight EXCEPT ![op] = Tail(@)]
    /\ lastAlert' = [lastAlert EXCEPT ![op] = Some(FailureAlert(w.kind))]
    /\ UNCHANGED <<dashboardVars, chatVars, sessionVars, calendarVars, dialogVars, store, mounted,
                   clock, appointments, isLoading, viewMode, searchTerm,
                   selectedAppointment, showDetailModal, showApprovalModal,
                   adminNotes, actionLoading, stats>>

\* (Mutation: the failure path also closes the modal and clears the note.)
WriteFailsClosesModal(op, w) ==
    /\ Settling(op, w)
    /\ inflight' = [inflight EXCEPT ![op] = Tail(@)]
    /\ IF ClosesApprovalModal(w.kind)
       THEN /\ showApprovalModal' = [showApprovalModal EXCEPT ![op] = FALSE]
            /\ adminNotes' = [adminNotes EXCEPT ![op] = ""]
            /\ selectedAppointment' = [selectedAppointment EXCEPT ![op] = Null]
            /\ actionLoading' = [actionLoading EXCEPT ![op] = FALSE]
       ELSE UNCHANGED <<showApprovalModal, adminNotes, selectedAppointment,
                        actionLoading>>
    /\ lastAlert' = [lastAlert EXCEPT ![op] = Some(FailureAlert(w.kind))]
    /\ UNCHANGED <<dashboardVars, chatVars, sessionVars, calendarVars, dialogVars, store, mounted,
                   clock, appointments, isLoading, viewMode, searchTerm,
                   showDetailModal, stats>>

\* The promise rejects (network, permission): the catch block alerts, the
\* finally block runs; the store is not touched.
WriteFails(op, w) ==
    /\ Settling(op, w)
    /\ inflight' = [inflight EXCEPT ![op] = Tail(@)]
    /\ IF ClosesApprovalModal(w.kind)
       THEN actionLoading' = [actionLoading EXCEPT ![op] = FALSE]
       ELSE UNCHANGED actionLoading
    /\ lastAlert' = [lastAlert EXCEPT ![op] = Some(FailureAlert(w.kind))]
    /\ UNCHANGED <<dashboardVars, chatVars, sessionVars, calendarVars, dialogVars, store, mounted, clock, appointments, isLoading, viewMode,
                   searchTerm, selectedAppointment, showDetailModal,
                   showApprovalModal, adminNotes, stats>>

-----------------------------------------------------------------------------
(* Chat management view *)

\* ChatManagementView mounts: the first effect subscribes to the chats query;
\* the second finds selectedThreadId null, sets messages to [] and returns.
MountChat ==
    /\ ~chatMounted
    /\ chatMounted' = TRUE
    /\ threads' = << >>
    /\ selectedThreadId' = Null
    /\ messages' = << >>
    /\ newMessage' = << >>
    /\ isLoadingThreads' = TRUE
    /\ isLoadingMessages' = FALSE
    /\ chatListeners' = {ThreadsListener}
    /\ UNCHANGED <<dashboardVars, alertVars, chats, chatMessages, sending, sessionVars, lifecycleVars,
                   calendarVars, dialogVars>>

\* A handler of an unmounted view still runs to its end, but its state
\* setters no longer reach a component.
Detached(w) == [w EXCEPT !.attached = FALSE]

\* The view unmounts (another page is shown, or the operator signs out): the
\* cleanups of both effects call their unsubscribe.
UnmountChat ==
    /\ chatMounted
    /\ chatMounted' = FALSE
    /\ chatListeners' = {}
    /\ sending' = [i \in 1..Len(sending) |-> Detached(sending[i])]
    /\ UNCHANGED <<dashboardVars, alertVars, chats, chatMessages, threads, selectedThreadId, messages,
                   newMessage, isLoadingThreads, isLoadingMessages, sessionVars,
                   lifecycleVars, calendarVars, dialogVars>>

\* The browser tab is closed: no handler continues and no write is issued.
ClientStops ==
    /\ chatMounted
    /\ chatMounted' = FALSE
    /\ chatListeners' = {}
    /\ sending' = << >>
    /\ UNCHANGED <<dashboardVars, alertVars, chats, chatMessages, threads, selectedThreadId, messages,
                   newMessage, isLoadingThreads, isLoadingMessages, sessionVars,
                   lifecycleVars, calendarVars, dialogVars>>

\* The onSnapshot callback of the chats query.
ThreadsSnapshot ==
    /\ ThreadsListener \in chatListeners
    /\ threads # ThreadsList \/ isLoadingThreads
    /\ threads' = ThreadsList
    /\ isLoadingThreads' = FALSE
    /\ UNCHANGED <<dashboardVars, alertVars, chats, chatMessages, chatMounted, selectedThreadId, messages,
                   newMessage, isLoadingMessages, chatListeners, sending,
                   sessionVars, lifecycleVars, calendarVars, dialogVars>>

\* The documents a snapshot of a thread's messages query carries:
\* orderBy("timestamp", "asc").
MessagesList(t) ==
    [i \in 1..Len(chatMessages[t]) |-> [id |-> <<t, i>>] @@ chatMessages[t][i]]

\* The onSnapshot callback of the messages query of thread t.
MessagesSnapshot(t) ==
    /\ MessagesListener(t) \in chatListeners
    /\ messages # MessagesList(t) \/ isLoadingMessages
    /\ messages' = MessagesList(t)
    /\ isLoadingMessages' = FALSE
    /\ UNCHANGED <<dashboardVars, alertVars, chats, chatMessages, chatMounted, threads, selectedThreadId,
                   newMessage, isLoadingThreads, chatListeners, sending,
                   sessionVars, lifecycleVars, calendarVars, dialogVars>>

\* The cleanup of the messages effect: the unsubscribe of the listener the
\* effect opened for the thread selected before, if it opened one.
ReleasedOnSwitch ==
    IF selectedThreadId = Null THEN {} ELSE {MessagesListener(selectedThreadId[1])}

\* (Mutation: the messages effect does not call setIsLoadingMessages(true).)
SelectThreadKeepsLoadingFlag(t) ==
    /\ chatMounted /\ ~isLoadingThreads
    /\ \E i \in 1..Len(threads) : threads[i].id = t
    /\ selectedThreadId # Some(t)
    /\ selectedThreadId' = Some(t)
    /\ chatListeners' = (chatListeners \ ReleasedOnSwitch) \cup {MessagesListener(t)}
    /\ UNCHANGED <<dashboardVars, alertVars, chats, chatMessages, chatMounted, threads, messages,
                   newMessage, isLoadingThreads, isLoadingMessages, sending,
                   sessionVars, lifecycleVars, calendarVars, dialogVars>>

\* onClick={() => setSelectedThreadId(thread.id)} on a row of the thread list;
\* the messages effect ([selectedThreadId]) is cleaned up and runs again.
SelectThread(t) ==
    /\ chatMounted /\ ~isLoadingThreads
    /\ \E i \in 1..Len(threads) : threads[i].id = t
    /\ selectedThreadId # Some(t)
    /\ selectedThreadId' = Some(t)
    /\ isLoadingMessages' = TRUE
    /\ chatListeners' = (chatListeners \ ReleasedOnSwitch) \cup {MessagesListener(t)}
    /\ UNCHANGED <<dashboardVars, alertVars, chats, chatMessages, chatMounted, threads, messages,
                   newMessage, isLoadingThreads, sending, sessionVars,
                   lifecycleVars, calendarVars, dialogVars>>

\* onChange={(e) => setNewMessage(e.target.value)}; the form is rendered
\* only while a thread is selected.
TypeNewMessage(text) ==
    /\ chatMounted /\ selectedThreadId # Null
    /\ text # newMessage
    /\ newMessage' = text
    /\ UNCHANGED <<dashboardVars, alertVars, chats, chatMessages, chatMounted, threads, selectedThreadId,
                   messages, isLoadingThreads, isLoadingMessages, chatListeners,
                   sending, sessionVars, lifecycleVars, calendarVars, dialogVars>>

\* A write of handleSendMessage in flight: which of its two awaits it is, and
\* the thread id and text the handler's closure holds.
SendWrite(call, thread, text) ==
    [call |-> call, thread |-> thread, text |-> text, attached |-> TRUE]

\* The timestamps the writes in flight may still take.
RECURSIVE ClockReserved(_)
ClockReserved(queue) ==
    IF queue = << >> THEN 0
    ELSE (IF Head(queue).call = "addDoc" THEN 2 ELSE 1) + ClockReserved(Tail(queue))

MaySend ==
    /\ Len(sending) < MaxSending
    /\ clock + ClockReserved(sending) + 2 <= MaxChatClock

\* if (newMessage.trim() === "" || !selectedThreadId || !user) return;
\* the view is rendered only for a signed-in user.
SendReturnsEarly == trim(newMessage) = << >> \/ selectedThreadId = Null

\* onSubmit of the message form, up to its first await: addDoc is called.
handleSendMessage ==
    /\ chatMounted /\ selectedThreadId # Null
    /\ MaySend
    /\ IF SendReturnsEarly
       THEN UNCHANGED sending
       ELSE sending' = Append(sending,
                              SendWrite("addDoc", selectedThreadId[1], newMessage))
    /\ UNCHANGED <<dashboardVars, alertVars, chats, chatMessages, chatMounted, threads, selectedThreadId,
                   messages, newMessage, isLoadingThreads, isLoadingMessages,
                   chatListeners, sessionVars, lifecycleVars, calendarVars,
                   dialogVars>>

\* The client sends its writes in the order it issued them.
SendSettling(w, call) ==
    /\ sending # << >>
    /\ w = Head(sending)
    /\ w.call = call

\* addDoc resolves: the message document is stored and the handler goes on
\* to call updateDoc on the thread document.
AddDocSucceeds(w) ==
    /\ SendSettling(w, "addDoc")
    /\ chatMessages' = [chatMessages EXCEPT ![w.thread] =
                            Append(@, [text |-> w.text, senderId |-> "admin",
                                       timestamp |-> clock + 1])]
    /\ clock' = clock + 1
    /\ sending' = Append(Tail(sending), [w EXCEPT !.call = "updateDoc"])
    /\ UNCHANGED <<dashboardVars, alertVars, chats, chatMounted, threads, selectedThreadId, messages,
                   newMessage, isLoadingThreads, isLoadingMessages, chatListeners,
                   sessionVars, appointmentVars, calendarVars, dialogVars>>

\* (Mutation: a rejected addDoc is swallowed and the handler goes on.)
AddDocFailsContinues(w) ==
    /\ SendSettling(w, "addDoc")
    /\ sending' = Append(Tail(sending), [w EXCEPT !.call = "updateDoc"])
    /\ UNCHANGED <<dashboardVars, alertVars, chats, chatMessages, chatMounted, threads, selectedThreadId,
                   messages, newMessage, isLoadingThreads, isLoadingMessages,
                   chatListeners, sessionVars, lifecycleVars, calendarVars,
                   dialogVars>>

\* addDoc rejects: the await throws out of the handler, which has no catch.
AddDocFails(w) ==
    /\ SendSettling(w, "addDoc")
    /\ sending' = Tail(sending)
    /\ UNCHANGED <<dashboardVars, alertVars, chats, chatMessages, chatMounted, threads, selectedThreadId,
                   messages, newMessage, isLoadingThreads, isLoadingMessages,
                   chatListeners, sessionVars, lifecycleVars, calendarVars,
                   dialogVars>>

\* updateDoc resolves: the thread summary is stored and the form is cleared.
UpdateDocSucceeds(w) ==
    /\ SendSettling(w, "updateDoc")
    /\ chats' = [chats EXCEPT ![w.thread] =
                    [@ EXCEPT !.lastMessageText = w.text,
                              !.lastMessageTimestamp = clock + 1,
                              !.unreadByAdmin = FALSE]]
    /\ clock' = clock + 1
    /\ sending' = Tail(sending)
    /\ newMessage' = IF w.attached THEN << >> ELSE newMessage
    /\ UNCHANGED <<dashboardVars, alertVars, chatMessages, chatMounted, threads, selectedThreadId, messages,
                   isLoadingThreads, isLoadingMessages, chatListeners,
                   sessionVars, appointmentVars, calendarVars, dialogVars>>

\* updateDoc rejects: the await throws out of the handler; nothing follows.
UpdateDocFails(w) ==
    /\ SendSettling(w, "updateDoc")
    /\ sending' = Tail(sending)
    /\ UNCHANGED <<dashboardVars, alertVars, chats, chatMessages, chatMounted, threads, selectedThreadId,
                   messages, newMessage, isLoadingThreads, isLoadingMessages,
                   chatListeners, sessionVars, lifecycleVars, calendarVars,
                   dialogVars>>

-----------------------------------------------------------------------------

Next ==
    \E op \in Operators :
        \/ AppointmentsSnapshot(op)
        \/ \E mode \in ViewModes : SetViewMode(op, mode)
        \/ \E app \in Elements(appointments[op]) : ViewFromList(op, app)
        \/ \E app \in Elements(appointments[op]) : ViewFromCalendar(op, app)
        \/ \E app \in Elements(appointments[op]) : ApproveFromList(op, app)
        \/ ApproveFromDetail(op)
        \/ CloseDetailModal(op)
        \/ CancelApprovalModal(op)
        \/ BackdropApprovalModal(op)
        \/ \E note \in NoteInputs : TypeAdminNotes(op, note)
        \/ handleApprove(op)
        \/ \E reason \in ReasonInputs : handleDecline(op, reason)
        \/ \E app \in Elements(appointments[op]), answer \in BOOLEAN :
               handleMarkCompleted(op, app, answer)
        \/ \E answer \in BOOLEAN : handleRefund(op, answer)
        \/ \E w \in Elements(inflight[op]) : WriteSucceeds(op, w)
        \/ \E w \in Elements(inflight[op]) : WriteFails(op, w)

Spec == Init /\ [][Next]_vars

\* The derived views under browsing: the operator also uses the search box,
\* leaves the admin note empty, and no write is rejected.
NextView ==
    \E op \in Operators :
        \/ AppointmentsSnapshot(op)
        \/ \E mode \in ViewModes : SetViewMode(op, mode)
        \/ \E term \in SearchInputs : SetSearchTerm(op, term)
        \/ \E app \in Elements(appointments[op]) : ViewFromList(op, app)
        \/ \E app \in Elements(appointments[op]) : ViewFromCalendar(op, app)
        \/ \E app \in Elements(appointments[op]) : ApproveFromList(op, app)
        \/ ApproveFromDetail(op)
        \/ CloseDetailModal(op)
        \/ CancelApprovalModal(op)
        \/ handleApprove(op)
        \/ \E reason \in ReasonInputs : handleDecline(op, reason)
        \/ \E app \in Elements(appointments[op]), answer \in BOOLEAN :
               handleMarkCompleted(op, app, answer)
        \/ \E answer \in BOOLEAN : handleRefund(op, answer)
        \/ \E w \in Elements(inflight[op]) : WriteSucceeds(op, w)

SpecView == Init /\ [][NextView]_vars

\* The calendar view on its own: the list arrives, the operator switches
\* views, pages through the months and clicks cells.
NextCalendar ==
    \E op \in Operators :
        \/ AppointmentsSnapshot(op)
        \/ SetViewMode(op, "calendar")
        \/ \E offset \in {-1, 1} : changeMonth(op, offset)
        \/ \E day \in GridCells(op) : SelectDay(op, day)

SpecCalendar == Init /\ [][NextCalendar]_vars

\* The refund confirmation on its own, for every amount up to the bound.
InitRefundDialog ==
    /\ InitLifecycle
    /\ InitCalendar
    /\ InitSession
    /\ InitChat
    /\ InitDashboard
    /\ dialogAmount \in 0..MaxAmountCents
    /\ dialogText = Null

NextRefundDialog ==
    \/ ShowRefundConfirm
    \/ AnswerRefundConfirm

SpecRefundDialog == InitRefundDialog /\ [][NextRefundDialog]_vars

\* Two admin clients at once: both have the component mounted and work from
\* the list view with the admin note left empty; no write is rejected.
InitConcurrent ==
    /\ store \in InitialStores
    /\ mounted = [op \in Operators |-> TRUE]
    /\ clock = 0
    /\ appointments = [op \in Operators |-> << >>]
    /\ isLoading = [op \in Operators |-> TRUE]
    /\ viewMode = [op \in Operators |-> "pending"]
    /\ searchTerm = [op \in Operators |-> << >>]
    /\ selectedAppointment = [op \in Operators |-> Null]
    /\ showDetailModal = [op \in Operators |-> FALSE]
    /\ showApprovalModal = [op \in Operators |-> FALSE]
    /\ adminNotes = [op \in Operators |-> ""]
    /\ actionLoading = [op \in Operators |-> FALSE]
    /\ stats = [op \in Operators |-> ComputeStats(<< >>)]
    /\ inflight = [op \in Operators |-> << >>]
    /\ InitCalendar
    /\ InitSession
    /\ InitChat
    /\ InitDashboard
    /\ dialogAmount = 0
    /\ dialogText = Null

NextConcurrent ==
    \E op \in Operators :
        \/ AppointmentsSnapshot(op)
        \/ \E app \in Elements(appointments[op]) : ViewFromList(op, app)
        \/ \E app \in Elements(appointments[op]) : ApproveFromList(op, app)
        \/ ApproveFromDetail(op)
        \/ CloseDetailModal(op)
        \/ handleApprove(op)
        \/ handleDecline(op, Some("no slot"))
        \/ handleRefund(op, TRUE)
        \/ \E w \in Elements(inflight[op]) : WriteSucceeds(op, w)

SpecConcurrent == InitConcurrent /\ [][NextConcurrent]_vars

\* The appointment view over its whole life: it mounts, receives snapshots
\* while operators approve appointments, and unmounts.
NextSync ==
    \E op \in Operators :
        \/ MountView(op)
        \/ UnmountView(op)
        \/ AppointmentsSnapshot(op)
        \/ UsersSnapshot(op)
        \/ \E app \in Elements(appointments[op]) : ApproveFromList(op, app)
        \/ handleApprove(op)
        \/ \E w \in Elements(inflight[op]) : WriteSucceeds(op, w)

SpecSync == Init /\ [][NextSync]_vars

\* The chat view: threads are selected and messages are sent, and any write
\* may be rejected.
NextChat ==
    \/ MountChat
    \/ UnmountChat
    \/ ClientStops
    \/ ThreadsSnapshot
    \/ \E t \in ThreadIds : MessagesSnapshot(t)
    \/ \E t \in ThreadIds : SelectThread(t)
    \/ \E text \in MessageInputs : TypeNewMessage(text)
    \/ handleSendMessage
    \/ \E w \in Elements(sending) :
          \/ AddDocSucceeds(w)
          \/ AddDocFails(w)
          \/ UpdateDocSucceeds(w)
          \/ UpdateDocFails(w)

SpecChat == Init /\ [][NextChat]_vars

\* Every view that subscribes, over its whole life: the appointment view of
\* each operator and the chat view mount, receive snapshots and unmount, while
\* appointments are approved and the chat operator switches threads.
NextSession ==
    \/ \E op \in Operators :
          \/ MountView(op)
          \/ UnmountView(op)
          \/ AppointmentsSnapshot(op)
          \/ UsersSnapshot(op)
          \/ \E app \in Elements(appointments[op]) : ApproveFromList(op, app)
          \/ handleApprove(op)
          \/ \E w \in Elements(inflight[op]) : WriteSucceeds(op, w)
    \/ MountChat
    \/ UnmountChat
    \/ ThreadsSnapshot
    \/ \E t \in ThreadIds : MessagesSnapshot(t)
    \/ \E t \in ThreadIds : SelectThread(t)

SpecSession == Init /\ [][NextSession]_vars

-----------------------------------------------------------------------------
(* The appointment list of the dashboard: header clicks *)

\* (Mutation: a click on the active column keeps its direction.)
requestSortKeepsDirection(key) ==
    /\ PageShown = Some("Appointment Management")
    /\ sortConfig' = [key |-> key,
                      direction |-> IF sortConfig.key = key
                                    THEN sortConfig.direction
                                    ELSE "ascending"]
    /\ sortConfig' # sortConfig
    /\ UNCHANGED <<collectionVars, themeVars, authVars, fetchVars, alertVars,
                   chatVars, sessionVars, lifecycleVars, calendarVars,
                   dialogVars>>

\* onClick={() => requestSort(key)} on a column header.
requestSort(key) ==
    /\ PageShown = Some("Appointment Management")
    /\ sortConfig' = [key |-> key,
                      direction |-> IF /\ sortConfig.key = key
                                       /\ sortConfig.direction = "ascending"
                                    THEN "descending"
                                    ELSE "ascending"]
    /\ UNCHANGED <<collectionVars, themeVars, authVars, fetchVars, alertVars,
                   chatVars, sessionVars, lifecycleVars, calendarVars,
                   dialogVars>>

\* The documents the one-shot fetch can have loaded: the morning slots are
\* the pending ones.
AppointmentRows ==
    UNION {[1..n -> {r \in [userId : UserIds, date : DateStrings,
                            time : TimeStrings, status : StatusStrings] :
                        r.time = <<48,57,58,48,48>> <=> r.status[1] = 80}]
             : n \in 0..MaxRows}

UserRows ==
    {<< >>} \cup {<<[id |-> "u1", displayName |-> n]>> : n \in DisplayNames}
            \cup {<<[id |-> "u1", displayName |-> << >>]>>}

\* The documents with their ids: document i of a list has the id i.
AppointmentDocs(rows) ==
    [i \in 1..Len(rows) |->
        [id |-> i, userId |-> rows[i].userId, date |-> rows[i].date,
         time |-> rows[i].time, status |-> rows[i].status]]

\* The list page after a fetch, for every list up to the bound.
InitSort ==
    /\ InitLifecycle
    /\ InitCalendar
    /\ InitSession
    /\ InitChat
    /\ dialogAmount = 0
    /\ dialogText = Null
    /\ dashboardUsers \in UserRows
    /\ \E rows \in AppointmentRows :
          dashboardAppointments = AppointmentDocs(rows)
    /\ sortConfig = InitialSortConfig
    /\ running = TRUE
    /\ theme = "dark"
    /\ localStorageTheme = Some("dark")
    /\ isAppReady = TRUE
    /\ authIsReady = TRUE
    /\ user = Some("admin")
    /\ authUser = Some("admin")
    /\ currentPage = "Appointment Management"
    /\ isLoadingData = FALSE
    /\ fetches = <<[stage |-> "done", replaced |-> {"users", "appointments"}]>>

NextSort == \E key \in SortKeys : requestSort(key)

SpecSort == InitSort /\ [][NextSort]_vars

-----------------------------------------------------------------------------
(* AdminDashboard: start, theme, authentication and the one-shot fetch *)

\* fetchData calls since the page was opened.
MaxFetches == 2

AdminUser == Some("admin")

\* What a read of the users and of the appointments collection can return.
FetchedUsers == {<< >>, <<[id |-> "u1", displayName |-> <<65,110,110>>]>>}

FetchedAppointments ==
    {<< >>,
     <<[id |-> 1, userId |-> "u1", date |-> <<50,48,50,55,45,48,49,45,48,53>>,
        time |-> <<48,57,58,48,48>>,
        status |-> <<80,101,110,100,105,110,103>>]>>}

\* localStorage.getItem("theme") || "dark"
InitialTheme ==
    IF localStorageTheme = Null \/ localStorageTheme = Some("")
    THEN "dark"
    ELSE localStorageTheme[1]

\* The page is opened: AdminDashboard is constructed with its useState
\* initial values, and the theme effect runs on the first render.
StartDashboard ==
    /\ ~running
    /\ running' = TRUE
    /\ theme' = InitialTheme
    /\ localStorageTheme' = Some(theme')
    /\ UNCHANGED <<isAppReady, authIsReady, user, authUser, currentPage,
                   collectionVars, sortVars, fetchVars, alertVars, chatVars,
                   sessionVars, lifecycleVars, calendarVars, dialogVars>>

\* The page is closed or reloaded: the component state is gone, local storage
\* and the provider's session stay.
CloseDashboard ==
    /\ running
    /\ running' = FALSE
    /\ dashboardUsers' = << >>
    /\ dashboardAppointments' = << >>
    /\ sortConfig' = InitialSortConfig
    /\ isAppReady' = FALSE
    /\ authIsReady' = FALSE
    /\ user' = Null
    /\ currentPage' = "Dashboard"
    /\ isLoadingData' = TRUE
    /\ fetches' = << >>
    /\ UNCHANGED <<themeVars, authUser, alertVars, chatVars, sessionVars,
                   lifecycleVars, calendarVars, dialogVars>>

\* setTimeout(() => setIsAppReady(true), 3000)
AppReadyTimer ==
    /\ running /\ ~isAppReady
    /\ isAppReady' = TRUE
    /\ UNCHANGED <<running, authIsReady, user, authUser, currentPage,
                   collectionVars, sortVars, themeVars, fetchVars, alertVars,
                   chatVars, sessionVars, lifecycleVars, calendarVars,
                   dialogVars>>

\* A call of fetchData that has set isLoadingData and awaits the users read.
StartedFetch == [stage |-> "users", replaced |-> {}]

\* (Mutation: the fetch effect has no `if (!user) return`.)
AuthStateChangedAlwaysFetches ==
    /\ running
    /\ ~authIsReady \/ user # authUser
    /\ Len(fetches) < MaxFetches
    /\ user' = authUser
    /\ authIsReady' = TRUE
    /\ isLoadingData' = TRUE
    /\ fetches' = Append(fetches, StartedFetch)
    /\ UNCHANGED <<running, isAppReady, authUser, currentPage, collectionVars,
                   sortVars, themeVars, alertVars, chatVars, sessionVars,
                   lifecycleVars, calendarVars, dialogVars>>

\* The onAuthStateChanged callback with the provider's user, and the fetch
\* effect that a change of user triggers.
AuthStateChanged ==
    /\ running
    /\ ~authIsReady \/ user # authUser
    /\ user' = authUser
    /\ authIsReady' = TRUE
    /\ IF authUser # Null
       THEN /\ isLoadingData' = TRUE
            /\ fetches' = Append(fetches, StartedFetch)
       ELSE UNCHANGED fetchVars
    /\ UNCHANGED <<running, isAppReady, authUser, currentPage, collectionVars,
                   sortVars, themeVars, alertVars, chatVars, sessionVars,
                   lifecycleVars, calendarVars, dialogVars>>

\* handleLogin on the login page, with signInWithEmailAndPassword resolving.
\* (A rejected sign-in sets loginError only.)
handleLogin ==
    /\ Screen = "login"
    /\ authUser = Null
    /\ Len(fetches) < MaxFetches
    /\ authUser' = AdminUser
    /\ UNCHANGED <<running, isAppReady, authIsReady, user, currentPage,
                   collectionVars, sortVars, themeVars, fetchVars, alertVars,
                   chatVars, sessionVars, lifecycleVars, calendarVars,
                   dialogVars>>

\* handleLogout from the layout: await signOut(auth).
handleLogout ==
    /\ Screen = "layout"
    /\ authUser # Null
    /\ authUser' = Null
    /\ UNCHANGED <<running, isAppReady, authIsReady, user, currentPage,
                   collectionVars, sortVars, themeVars, fetchVars, alertVars,
                   chatVars, sessionVars, lifecycleVars, calendarVars,
                   dialogVars>>

\* setCurrentPage from the layout's navigation; the page left is unmounted.
setCurrentPage(page) ==
    /\ Screen = "layout"
    /\ page # currentPage
    /\ currentPage' = page
    /\ sortConfig' = InitialSortConfig
    /\ UNCHANGED <<running, isAppReady, authIsReady, user, authUser,
                   collectionVars, themeVars, fetchVars, alertVars, chatVars,
                   sessionVars, lifecycleVars, calendarVars, dialogVars>>

\* (Mutation: the theme effect does not write to local storage.)
ToggleThemeUnsaved ==
    /\ PageShown = Some("Settings")
    /\ theme' = Toggled(theme)
    /\ UNCHANGED <<localStorageTheme, authVars, collectionVars, sortVars,
                   fetchVars, alertVars, chatVars, sessionVars, lifecycleVars,
                   calendarVars, dialogVars>>

\* The toggle of SettingsView: setTheme(isDark ? "light" : "dark"), and the
\* theme effect that the change triggers.
ToggleTheme ==
    /\ PageShown = Some("Settings")
    /\ theme' = Toggled(theme)
    /\ localStorageTheme' = Some(theme')
    /\ UNCHANGED <<authVars, collectionVars, sortVars, fetchVars, alertVars,
                   chatVars, sessionVars, lifecycleVars, calendarVars,
                   dialogVars>>

\* The fetch frame: a settled read changes the fetch and the record sets only.
FetchFrame ==
    UNCHANGED <<authVars, sortVars, themeVars, alertVars, chatVars, sessionVars,
                lifecycleVars, calendarVars, dialogVars>>

\* await getDocs(collection(db, "users")) resolves: setUsers(usersData), and
\* the appointments read is issued.
UsersReadSucceeds(i, docs) ==
    /\ running
    /\ i \in 1..Len(fetches)
    /\ fetches[i].stage = "users"
    /\ dashboardUsers' = docs
    /\ fetches' = [fetches EXCEPT ![i] = [stage |-> "appointments",
                                           replaced |-> {"users"}]]
    /\ UNCHANGED <<dashboardAppointments, isLoadingData>>
    /\ FetchFrame

\* await getDocs(collection(db, "users")) rejects: catch logs, finally clears
\* the flag.
UsersReadFails(i) ==
    /\ running
    /\ i \in 1..Len(fetches)
    /\ fetches[i].stage = "users"
    /\ fetches' = [fetches EXCEPT ![i] = [stage |-> "failed",
                                           replaced |-> {}]]
    /\ isLoadingData' = FALSE
    /\ UNCHANGED collectionVars
    /\ FetchFrame

\* await getDocs(collection(db, "appointments")) resolves:
\* setAppointments(appointmentsData), then finally.
AppointmentsReadSucceeds(i, docs) ==
    /\ running
    /\ i \in 1..Len(fetches)
    /\ fetches[i].stage = "appointments"
    /\ dashboardAppointments' = docs
    /\ fetches' = [fetches EXCEPT ![i] =
                       [stage |-> "done",
                        replaced |-> fetches[i].replaced \cup {"appointments"}]]
    /\ isLoadingData' = FALSE
    /\ UNCHANGED dashboardUsers
    /\ FetchFrame

\* await getDocs(collection(db, "appointments")) rejects: catch, then finally.
AppointmentsReadFails(i) ==
    /\ running
    /\ i \in 1..Len(fetches)
    /\ fetches[i].stage = "appointments"
    /\ fetches' = [fetches EXCEPT ![i].stage = "failed"]
    /\ isLoadingData' = FALSE
    /\ UNCHANGED collectionVars
    /\ FetchFrame

\* A read of fetch i settles.
ReadSettles(i) ==
    \/ \E docs \in FetchedUsers : UsersReadSucceeds(i, docs)
    \/ UsersReadFails(i)
    \/ \E docs \in FetchedAppointments : AppointmentsReadSucceeds(i, docs)
    \/ AppointmentsReadFails(i)

\* A browser with or without a stored theme and a persisted session, and the
\* page not opened yet.
InitBrowser ==
    /\ InitLifecycle
    /\ InitCalendar
    /\ InitSession
    /\ InitChat
    /\ dialogAmount = 0
    /\ dialogText = Null
    /\ InitDashboardState
    /\ running = FALSE
    /\ localStorageTheme \in {Null, Some("light"), Some("dark")}
    /\ theme = InitialTheme
    /\ authUser \in {Null, AdminUser}

NextDashboard ==
    \/ StartDashboard
    \/ CloseDashboard
    \/ AppReadyTimer
    \/ AuthStateChanged
    \/ handleLogin
    \/ handleLogout
    \/ \E page \in Pages : setCurrentPage(page)
    \/ ToggleTheme
    \/ \E i \in 1..MaxFetches :
          \/ \E docs \in FetchedUsers : UsersReadSucceeds(i, docs)
          \/ UsersReadFails(i)
          \/ \E docs \in FetchedAppointments : AppointmentsReadSucceeds(i, docs)
          \/ AppointmentsReadFails(i)

SpecDashboard == InitBrowser /\ [][NextDashboard]_vars

\* A read that was issued settles: getDocs resolves or rejects.
FairSpecDashboard ==
    SpecDashboard /\ \A i \in 1..MaxFetches : WF_vars(ReadSettles(i))

-----------------------------------------------------------------------------
(* Appointment lifecycle: status transitions *)

\* C1: `cancelled` is terminal: once a stored appointment's status is
\* cancelled, no step of the controller (approve, decline, mark completed,
\* refund) changes it to another value.
CancelledIsTerminal ==
    [][\A id \in AppIds :
          store[id].status = "cancelled" => store'[id].status = "cancelled"]_vars

\* C2: `completed` is terminal: once a stored appointment's status is
\* completed, no step of the controller changes it to another value.
CompletedIsTerminal ==
    [][\A id \in AppIds :
          store[id].status = "completed" => store'[id].status = "completed"]_vars

\* C3: every approve write is issued for an appointment that the client held as
\* `pending` when the approval modal was opened (the object the handler's
\* closure holds), and approve issues no write when nothing is selected.
ApproveOnlyPending ==
    \A op \in Operators :
        /\ \A w \in Elements(inflight[op]) :
               w.kind = "approve" => w.app.status = "pending"
        /\ selectedAppointment[op] = Null =>
               \A w \in Elements(inflight[op]) : w.kind # "approve"

\* C4: with an empty search term, an appointment of the client's list is in the
\* pending view iff (status is pending or confirmedAt is absent) and status is
\* neither completed nor cancelled.
PendingBucketMembership ==
    \A op \in Operators :
        \A app \in Elements(appointments[op]) :
            app \in Elements(filteredAppointments(appointments[op], "pending", << >>))
            <=> /\ app.status = "pending" \/ app.confirmedAt = Null
                /\ app.status \notin {"completed", "cancelled"}

-----------------------------------------------------------------------------
(* Appointment lifecycle: what a committed write changes *)

\* The step commits the oldest pending write of op, issued by handler `kind`.
Commits(op, kind) ==
    /\ inflight[op] # << >>
    /\ Head(inflight[op]).kind = kind
    /\ WriteSucceeds(op, Head(inflight[op]))

\* Documents a and b agree on every field outside `fields`, and have the same
\* fields.
SameExcept(a, b, fields) ==
    /\ DOMAIN a = DOMAIN b
    /\ \A f \in (DOMAIN b) \ fields : a[f] = b[f]

\* C8: mark-completed applied to a stored appointment that is already
\* `completed` changes no field other than updatedAt.
MarkCompletedIdempotent ==
    [][\A op \in Operators :
          (Commits(op, "complete")
             /\ store[Head(inflight[op]).id].status = "completed")
          => LET id == Head(inflight[op]).id
             IN  /\ SameExcept(store'[id], store[id], {"updatedAt"})
                 /\ \A other \in AppIds \ {id} : store'[other] = store[other]]_vars

\* A second mark-completed has been committed on a2: a2 was confirmed at time 0
\* when the component mounted, was never cancelled or approved again, and both
\* writes of the run went to it (a1 is untouched).
MarkCompletedTwice ==
    /\ store["a2"].status = "completed"
    /\ store["a2"].confirmedAt = Some(0)
    /\ store["a2"].cancelledAt = Null
    /\ store["a2"].updatedAt = Some(2)
    /\ store["a1"].updatedAt = Some(0)

\* C9: a committed approve issued with admin note N leaves the stored record
\* with status confirmed, confirmedAt and updatedAt set, adminNotes N (null
\* when N is empty), and every other field, and every other record, as before.
ApproveEffect ==
    [][\A op \in Operators :
          Commits(op, "approve")
          => LET w == Head(inflight[op])
                 a == store'[w.id]
             IN  /\ a.status = "confirmed"
                 /\ a.confirmedAt # Null
                 /\ a.updatedAt # Null
                 /\ a.adminNotes = (IF w.note = "" THEN Null ELSE Some(w.note))
                 /\ SameExcept(a, store[w.id],
                               {"status", "confirmedAt", "updatedAt", "adminNotes"})
                 /\ \A other \in AppIds \ {w.id} : store'[other] = store[other]]_vars

\* An approve with note "ok" has been committed in this run.
ApprovedWithNote ==
    \E id \in AppIds :
        /\ store[id].status = "confirmed"
        /\ store[id].adminNotes = Some("ok")
        /\ store[id].confirmedAt \notin {Null, Some(0)}
        /\ store[id].confirmedAt = store[id].updatedAt

\* C10: a committed refund leaves the stored record with status cancelled,
\* paymentStatus refunded, cancelledAt set, the fixed cancellation reason and
\* its amount unchanged; no field is added to the record.
RefundEffect ==
    [][\A op \in Operators :
          Commits(op, "refund")
          => LET w == Head(inflight[op])
                 a == store'[w.id]
             IN  /\ a.status = "cancelled"
                 /\ a.paymentStatus = "refunded"
                 /\ a.cancelledAt # Null
                 /\ a.cancellationReason = Some("Refund requested by patient")
                 /\ a.amount = store[w.id].amount
                 /\ DOMAIN a = DOMAIN store[w.id]]_vars

\* A refund has been committed.
Refunded ==
    \E id \in AppIds :
        /\ store[id].paymentStatus = "refunded"
        /\ store[id].status = "cancelled"

-----------------------------------------------------------------------------
(* Derived views: aggregate stats *)

\* Sum of amount over the appointments of apps (a sequence) whose payment
\* status is pay, by position.
RECURSIVE AmountAt(_, _, _)
AmountAt(apps, pay, n) ==
    IF n = 0 THEN 0
    ELSE AmountAt(apps, pay, n - 1)
         + (IF apps[n].paymentStatus = pay THEN apps[n].amount ELSE 0)

StatsOverFullList ==
    \A op \in Operators :
        /\ stats[op].totalRevenue =
               AmountAt(appointments[op], "paid", Len(appointments[op]))
        /\ stats[op].pendingPayments =
               AmountAt(appointments[op], "pending", Len(appointments[op]))

\* C5: in every state totalRevenue (pendingPayments) is the sum of amount over
\* the appointments of the full in-memory list with paymentStatus paid
\* (pending), and a change of viewMode or searchTerm leaves stats as it was.
RevenueAggregate ==
    /\ []StatsOverFullList
    /\ [][\A op \in Operators :
             (viewMode'[op] # viewMode[op] \/ searchTerm'[op] # searchTerm[op])
             => stats'[op] = stats[op]]_vars

\* The active view and search hide a paid appointment of the list: the sum
\* over the filtered list differs from the revenue shown.
FilterHidesRevenue ==
    \E op \in Operators :
        /\ viewMode[op] # "pending"
        /\ searchTerm[op] # << >>
        /\ stats[op].totalRevenue > 0
        /\ LET shown == Listed(op)
           IN  AmountAt(shown, "paid", Len(shown)) # stats[op].totalRevenue

-----------------------------------------------------------------------------
(* Calendar logic: shape of the month grid *)

\* The calendar days of cur's month, found without the grid: the days
\* around the first of the month whose year and month are cur's.
DaysOfMonth(cur) ==
    {d \in (firstDayOfMonth(cur) - 7)..(firstDayOfMonth(cur) + 45) :
        getFullYear(d) = getFullYear(cur) /\ getMonth(d) = getMonth(cur)}

GridShape(cur) ==
    LET grid == daysInMonth(cur)
        month == DaysOfMonth(cur)
    IN  /\ Len(grid) > 0
        /\ Len(grid) % 7 = 0
        /\ getDay(grid[1]) = 0
        /\ getDay(grid[Len(grid)]) = 6
        /\ \A i \in 1..(Len(grid) - 1) : grid[i + 1] = grid[i] + 1
        /\ \A d \in month :
               Cardinality({i \in 1..Len(grid) : grid[i] = d}) = 1
        /\ \A i \in 1..Len(grid) :
               isCurrentMonth(grid[i], cur) <=> grid[i] \in month

\* C6: for every month the calendar shows, the grid has a multiple of 7
\* cells, starts on a Sunday, ends on a Saturday, holds consecutive calendar
\* days, and holds every day of the month exactly once, and exactly those
\* cells are marked as belonging to the current month.
MonthGridShape ==
    \A op \in Operators : mounted[op] => GridShape(currentDate[op])

\* The operator paged to a leap February and to a month that needs six
\* rows, and selected the last cell of the month in it.
LeapFebruaryShown ==
    \E op \in Operators :
        /\ mounted[op]
        /\ getMonth(currentDate[op]) = 1
        /\ Cardinality(DaysOfMonth(currentDate[op])) = 29
        /\ selectedDate[op] = Some([day |-> lastDayOfMonth(currentDate[op]), midnight |-> TRUE])

-----------------------------------------------------------------------------
(* Refund computation *)

\* C7: for every non-negative amount A the confirmation shows, as the fee,
\* a hundredth nearest to A * 0.1 and, as the refund, a hundredth nearest to
\* A * 0.9, and the shown refund plus the shown fee equals A.
RefundPartsSumToAmount ==
    dialogText # Null =>
        LET shown == dialogText[1]
        IN  /\ 10 * shown.fee - dialogAmount \in -5..5
            /\ 10 * shown.refund - 9 * dialogAmount \in -5..5
            /\ shown.refund + shown.fee = dialogAmount

-----------------------------------------------------------------------------
(* Appointment lifecycle: decline and mark completed *)

\* C11: a decline called with a non-empty reason issues one write that carries
\* the reason and sets the loading flag, and the committed write leaves the
\* record with status cancelled, cancelledAt set, that reason and adminNotes
\* the note or null; a decline whose prompt was cancelled or returned ""
\* issues no write and leaves the loading flag, the selected appointment and
\* the approval modal as they were.
DeclineEffect ==
    [][\A op \in Operators :
          /\ Commits(op, "decline")
             => LET w == Head(inflight[op])
                    a == store'[w.id]
                IN  /\ a.status = "cancelled"
                    /\ a.cancelledAt # Null
                    /\ a.cancellationReason = w.data.cancellationReason
                    /\ a.adminNotes = (IF w.note = "" THEN Null ELSE Some(w.note))
          /\ \A reason \in ReasonInputs :
                handleDecline(op, reason)
                => IF reason \in {Null, Some("")}
                   THEN UNCHANGED <<inflight, actionLoading, selectedAppointment,
                                    showApprovalModal, store>>
                   ELSE /\ Len(inflight'[op]) = Len(inflight[op]) + 1
                        /\ inflight'[op][Len(inflight'[op])].kind = "decline"
                        /\ inflight'[op][Len(inflight'[op])].data.cancellationReason = reason
                        /\ actionLoading'[op]]_vars

\* A decline with the reason "no slot" has been committed.
DeclinedWithReason ==
    \E id \in AppIds :
        /\ store[id].status = "cancelled"
        /\ store[id].cancellationReason = Some("no slot")
        /\ store[id].cancelledAt # Null

\* C12: mark completed is offered only for a row the client shows as
\* confirmed, issues no write when confirm() is answered negatively, and a
\* committed mark-completed changes only status (to completed) and updatedAt
\* of its record, and no other record.
MarkCompletedFrame ==
    [][\A op \in Operators :
          /\ \A app \in Elements(appointments[op]), answer \in BOOLEAN :
                handleMarkCompleted(op, app, answer)
                => /\ app.status = "confirmed"
                   /\ ~answer => UNCHANGED <<inflight, store>>
                   /\ answer => /\ Len(inflight'[op]) = Len(inflight[op]) + 1
                                /\ inflight'[op][Len(inflight'[op])].kind = "complete"
                                /\ inflight'[op][Len(inflight'[op])].id = app.id
          /\ Commits(op, "complete")
             => LET id == Head(inflight[op]).id
                IN  /\ store'[id].status = "completed"
                    /\ store'[id].updatedAt = Some(clock')
                    /\ SameExcept(store'[id], store[id], {"status", "updatedAt"})
                    /\ \A other \in AppIds \ {id} : store'[other] = store[other]]_vars

\* The first write of the run was a mark-completed of a confirmed appointment.
MarkedCompleted ==
    \E id \in AppIds :
        /\ store[id].status = "completed"
        /\ store[id].confirmedAt = Some(0)
        /\ store[id].updatedAt = Some(1)

-----------------------------------------------------------------------------
(* Appointment lifecycle: refund precondition *)

\* C13: every committed refund is applied to a record whose stored status is
\* not cancelled and whose stored paymentStatus is paid when the write is
\* applied; in particular no record is refunded twice.
RefundOnlyPaidNotCancelled ==
    [][\A op \in Operators :
          Commits(op, "refund")
          => LET before == store[Head(inflight[op]).id]
             IN  /\ before.status # "cancelled"
                 /\ before.paymentStatus = "paid"]_vars

-----------------------------------------------------------------------------
(* Derived views: text search *)

\* The letters of the model's strings that differ in case only.
CasePairs == {<<"J", "j">>, <<"A", "a">>, <<"B", "b">>, <<"P", "p">>}

SameIgnoringCase(c, d) == c = d \/ <<c, d>> \in CasePairs \/ <<d, c>> \in CasePairs

\* String s contains string t when case is ignored.
ContainsIgnoringCase(s, t) ==
    \E i \in 0..(Len(s) - Len(t)) :
        \A k \in 1..Len(t) : SameIgnoringCase(s[i + k], t[k])

SearchHit(app, t) ==
    \/ ContainsIgnoringCase(app.userName, t)
    \/ ContainsIgnoringCase(app.userEmail, t)
    \/ ContainsIgnoringCase(app.serviceName, t)

\* result holds exactly the elements of source at the positions in keep, in
\* the order of source.
IsSelection(result, source, keep) ==
    /\ Len(result) = Cardinality(keep)
    /\ \A k \in 1..Len(result) :
           result[k] = source[CHOOSE i \in keep : Cardinality({j \in keep : j < i}) = k - 1]

\* C14: for every search term and list, the filtered list is exactly the
\* status-filtered appointments whose userName, userEmail or serviceName
\* contains the term when case is ignored, in their original order; with the
\* empty term it is the status-filtered list.
TextSearch ==
    \A op \in Operators, t \in SearchInputs, mode \in ViewModes :
        LET base == StatusFiltered(appointments[op], mode)
            rows == filteredAppointments(appointments[op], mode, t)
        IN  /\ IsSelection(rows, base, {i \in 1..Len(base) : SearchHit(base[i], t)})
            /\ t = << >> => rows = base

\* The operator searched for "jab" and the table shows the one appointment
\* (of the two of the active view) whose service is "Jab".
SearchNarrowsList ==
    \E op \in Operators :
        /\ searchTerm[op] = <<"j", "a", "b">>
        /\ Len(StatusFiltered(appointments[op], viewMode[op])) = 2
        /\ Len(Listed(op)) = 1
        /\ Listed(op)[1].id = "a2"

-----------------------------------------------------------------------------
(* Appointment lifecycle: status values *)

\* C15: in every reachable state the status of every stored appointment is
\* one of pending, confirmed, completed, cancelled, paid, and every write a
\* controller operation has issued sets status to confirmed, cancelled or
\* completed.
StatusEnum ==
    /\ \A id \in AppIds : store[id].status \in AppointmentStatuses
    /\ \A op \in Operators :
           \A w \in Elements(inflight[op]) :
               /\ "status" \in DOMAIN w.data
               /\ w.data.status \in {"confirmed", "cancelled", "completed"}

\* The controller has declined one appointment and completed the other.
DeclinedAndCompleted ==
    /\ store["a1"].status = "cancelled"
    /\ store["a1"].paymentStatus = "paid"
    /\ store["a2"].status = "completed"

-----------------------------------------------------------------------------
(* Concurrent operators *)

\* The store takes the oldest write of every client, whatever the record
\* holds by then.
NoWriteRefused ==
    \A op \in Operators :
        inflight[op] # << >> =>
            \A w \in {Head(inflight[op])} : ENABLED WriteSucceeds(op, w)

\* C17: when two operators have status-changing writes on the same
\* appointment in flight, the store refuses neither, and after each write is
\* applied the stored status is the status of that write: the write applied
\* last decides.
LastWriteWins ==
    /\ []NoWriteRefused
    /\ [][\A op \in Operators :
             (inflight[op] # << >> /\ WriteSucceeds(op, Head(inflight[op])))
             => LET w == Head(inflight[op])
                IN  /\ store'[w.id].status = w.data.status
                    /\ store'[w.id].updatedAt = Some(clock')]_vars

\* op1's approve of a1 has been applied while op2's decline of a1, issued
\* from a copy that still shows a1 as it was created, is in flight.
DeclineRacesApprove ==
    /\ store["a1"].status = "confirmed"
    /\ store["a1"].updatedAt = Some(1)
    /\ inflight["op1"] = << >>
    /\ Len(inflight["op2"]) = 1
    /\ inflight["op2"][1].kind = "decline"
    /\ inflight["op2"][1].id = "a1"
    /\ inflight["op2"][1].app.updatedAt = Some(0)

-----------------------------------------------------------------------------
(* Data sync layer: snapshot handling *)

\* C18: every change a mounted view makes to its appointment list installs
\* exactly the documents of the snapshot, in query order, with nothing kept
\* from the list before; the loading flag is set while no appointments
\* snapshot has arrived, is cleared by the step that installs the first one,
\* is never set again by that view, and is left alone by a users snapshot.
SnapshotHandling ==
    /\ [](\A op \in Operators :
            mounted[op] /\ appointments[op] = << >> => isLoading[op])
    /\ [][\A op \in Operators :
            mounted[op] =>
                /\ appointments'[op] # appointments[op] =>
                        appointments'[op] = StoreList
                /\ isLoading[op] /\ ~isLoading'[op] =>
                        appointments[op] = << >> /\ appointments'[op] = StoreList
                /\ ~isLoading[op] => ~isLoading'[op]
                /\ users'[op] # users[op] =>
                        /\ users'[op] = UsersCollection
                        /\ isLoading'[op] = isLoading[op]
                        /\ appointments'[op] = appointments[op]]_vars

\* A users snapshot arrived while the view was still loading, and a later
\* appointments snapshot replaced a list that an approval had made stale.
SnapshotReplacedList ==
    \E op \in Operators :
        /\ mounted[op] /\ ~isLoading[op]
        /\ users[op] = UsersCollection
        /\ clock > 0
        /\ appointments[op] = StoreList

-----------------------------------------------------------------------------
(* Data sync layer: teardown *)

LiveMessageListeners == {t \in ThreadIds : MessagesListener(t) \in chatListeners}

\* C19: an unmounted appointment view and an unmounted chat view hold no live
\* listener (appointments, users, chat threads, thread messages), and while a
\* view stays unmounted nothing changes the state its snapshot callbacks set;
\* the chat view has at most one message listener, that of the selected thread.
Teardown ==
    /\ [](/\ \A op \in Operators : ~mounted[op] => listeners[op] = {}
          /\ ~chatMounted => chatListeners = {}
          /\ Cardinality(LiveMessageListeners) <= 1
          /\ \A t \in LiveMessageListeners : selectedThreadId = Some(t))
    /\ [][/\ \A op \in Operators :
                ~mounted[op] /\ ~mounted'[op] =>
                    /\ appointments'[op] = appointments[op]
                    /\ users'[op] = users[op]
                    /\ isLoading'[op] = isLoading[op]
          /\ ~chatMounted /\ ~chatMounted' =>
                UNCHANGED <<threads, messages, isLoadingThreads,
                            isLoadingMessages>>]_vars

\* An appointment view was unmounted holding a list the store has moved on
\* from, and the chat view was unmounted after its operator had switched from
\* thread t1 to thread t2 and before the messages of t2 arrived.
TornDown ==
    /\ \E op \in Operators :
          ~mounted[op] /\ ~isLoading[op] /\ appointments[op] # StoreList
    /\ ~chatMounted
    /\ selectedThreadId = Some("t2")
    /\ isLoadingMessages
    /\ messages = MessagesList("t1")

-----------------------------------------------------------------------------
(* Chat send: two writes, not atomic *)

PendingUpdateDocs(queue) ==
    Cardinality({i \in 1..Len(queue) : queue[i].call = "updateDoc"})

\* The message document a send stores, and the summary fields it then writes.
MessageOf(w, now) == [text |-> w.text, senderId |-> "admin", timestamp |-> now]
SummaryOf(w, now) ==
    [lastMessageText |-> w.text, lastMessageTimestamp |-> now,
     unreadByAdmin |-> FALSE]

\* C20: a send stores its message first and the thread summary in a later,
\* separate step: a step that stores a message appends it to its thread and
\* leaves every summary alone; updateDoc is put in flight only by the step in
\* which addDoc stored the message; a step that changes a summary writes
\* lastMessageText, lastMessageTimestamp and unreadByAdmin = false of a thread
\* whose message is already stored; no step removes or changes a stored
\* message; and when a write is rejected or the client stops, messages and
\* summaries stay as they are and no further write is put in flight.
DualWrite ==
    [][/\ \A t \in ThreadIds :
            chatMessages'[t] # chatMessages[t] =>
                /\ sending # << >>
                /\ Head(sending).call = "addDoc" /\ Head(sending).thread = t
                /\ chatMessages'[t] =
                        Append(chatMessages[t], MessageOf(Head(sending), clock'))
                /\ chats' = chats
                /\ PendingUpdateDocs(sending') = PendingUpdateDocs(sending) + 1
       /\ PendingUpdateDocs(sending') > PendingUpdateDocs(sending) =>
            chatMessages' # chatMessages
       /\ \A t \in ThreadIds :
            chats'[t] # chats[t] =>
                /\ sending # << >>
                /\ Head(sending).call = "updateDoc" /\ Head(sending).thread = t
                /\ chats'[t] = SummaryOf(Head(sending), clock')
                /\ \E i \in 1..Len(chatMessages[t]) :
                      /\ chatMessages[t][i].text = Head(sending).text
                      /\ chatMessages[t][i].senderId = "admin"
                /\ chatMessages' = chatMessages
                /\ sending' = Tail(sending)
       /\ Len(sending') < Len(sending) /\ clock' = clock =>
            /\ chats' = chats
            /\ chatMessages' = chatMessages
            /\ sending' \in {Tail(sending), << >>}]_vars

\* The second write of a send was rejected: the operator's message is the
\* last one stored in its thread, the summary still shows the patient's
\* text as unread, nothing is in flight and the form still holds the text.
StaleSummary ==
    \E t \in ThreadIds :
        /\ chatMounted /\ sending = << >>
        /\ Len(chatMessages[t]) = 2
        /\ chatMessages[t][2].senderId = "admin"
        /\ chatMessages[t][2].text = newMessage
        /\ chats[t].lastMessageText # newMessage
        /\ chats[t].unreadByAdmin

-----------------------------------------------------------------------------
(* Calendar: day clicks *)

\* C23: a step changes a client's selectedDate only to the local midnight of
\* a day of the displayed month (same year, same month); a click on any other
\* cell of the grid leaves selectedDate as it is.
DayClickInsideMonthOnly ==
    [][\A op \in Operators :
          selectedDate'[op] # selectedDate[op] =>
              /\ selectedDate'[op] # Null
              /\ selectedDate'[op][1].midnight
              /\ getFullYear(selectedDate'[op][1].day) = getFullYear(currentDate[op])
              /\ getMonth(selectedDate'[op][1].day) = getMonth(currentDate[op])]_vars

\* A day of the displayed month is selected in a grid that also shows days
\* of the month before and of the month after.
SelectedAmongOutsideCells ==
    \E op \in Operators :
        LET grid == daysInMonth(currentDate[op])
            month == DaysOfMonth(currentDate[op])
        IN  /\ CalendarShown(op)
            /\ selectedDate[op] # Null
            /\ selectedDate[op][1].midnight
            /\ selectedDate[op][1].day \in month
            /\ grid[1] \notin month
            /\ grid[Len(grid)] \notin month

-----------------------------------------------------------------------------
(* Approve/decline gating *)

\* The writes of the given kinds a client has in flight.
InFlightOf(op, kinds) == SelectSeq(inflight[op], LAMBDA w : w.kind \in kinds)

ModalKinds == {"approve", "decline"}

\* C25: a client has at most one approve or decline write in flight, and
\* actionLoading is true exactly while it has one; in particular no approve
\* or decline is started while one is in flight, and the step in which the
\* write settles, resolved or rejected, leaves actionLoading false.  Neither
\* actionLoading nor a write in flight disables Process Refund in an open
\* detail modal or Complete in a listed row.
ApproveDeclineGate ==
    /\ [](\A op \in Operators :
            /\ Len(InFlightOf(op, ModalKinds)) <= 1
            /\ actionLoading[op] <=> Len(InFlightOf(op, ModalKinds)) = 1
            /\ DetailModalOpen(op) /\ MayIssue(op)
                    /\ RefundOffered(selectedAppointment[op][1])
                => ENABLED handleRefund(op, TRUE)
            /\ \A app \in Elements(Listed(op)) :
                    PageClickable(op) /\ MayIssue(op) /\ viewMode[op] # "calendar"
                        /\ CompleteOffered(app)
                    => ENABLED handleMarkCompleted(op, app, TRUE))
    /\ [][\A op \in Operators :
            /\ Len(InFlightOf(op, ModalKinds)) = 1
                    /\ Len(InFlightOf(op, ModalKinds)') = 0
                => ~actionLoading'[op]
            /\ Len(InFlightOf(op, ModalKinds)') > Len(InFlightOf(op, ModalKinds))
                => ~actionLoading[op] /\ actionLoading'[op]]_vars

\* The same client has two refund writes for one appointment in flight.
DuplicateRefundsInFlight ==
    \E op \in Operators :
        /\ Len(inflight[op]) = 2
        /\ inflight[op][1].kind = "refund"
        /\ inflight[op][2].kind = "refund"
        /\ inflight[op][1].id = inflight[op][2].id

-----------------------------------------------------------------------------
(* Write failures *)

\* C26: the step in which a client's write is rejected takes that write out
\* of flight and puts none in (no retry), leaves the collection as it is,
\* shows the failure alert of the handler that issued the write and, for an
\* approve or a decline, leaves the approval modal, the selected appointment
\* and the typed admin note as they were and actionLoading false.
WriteFailureHandling ==
    [][\A op \in Operators :
          inflight'[op] # inflight[op] /\ clock' = clock
                  /\ Len(inflight'[op]) <= Len(inflight[op])
              => LET w == Head(inflight[op])
                 IN  /\ inflight'[op] = Tail(inflight[op])
                     /\ store' = store
                     /\ lastAlert'[op] = Some(FailureAlert(w.kind))
                     /\ showDetailModal'[op] = showDetailModal[op]
                     /\ showApprovalModal'[op] = showApprovalModal[op]
                     /\ selectedAppointment'[op] = selectedAppointment[op]
                     /\ adminNotes'[op] = adminNotes[op]
                     /\ w.kind \in ModalKinds => ~actionLoading'[op]]_vars

\* An approve with the note "ok" was rejected: the alert was shown, the
\* approval modal is still open on the appointment with the note in place,
\* nothing is in flight and the appointment is stored as it was booked.
ApproveRejected ==
    \E op \in Operators :
        /\ lastAlert[op] = Some(FailureAlert("approve"))
        /\ ApprovalModalOpen(op)
        /\ adminNotes[op] = "ok"
        /\ ~actionLoading[op]
        /\ inflight[op] = << >>
        /\ clock = 0
        /\ store[selectedAppointment[op][1].id] = selectedAppointment[op][1]

-----------------------------------------------------------------------------
(* Snapshots under an open modal *)

\* C27: while a client has the detail modal or the approval modal open, the
\* appointment the modal shows and acts on is the record with the same id in
\* the client's current list.
ModalShowsLatestRecord ==
    \A op \in Operators :
        DetailModalOpen(op) \/ ApprovalModalOpen(op) =>
            \A i \in 1..Len(appointments[op]) :
                appointments[op][i].id = selectedAppointment[op][1].id =>
                    appointments[op][i] = selectedAppointment[op][1]

-----------------------------------------------------------------------------
(* The admin note across approval modals *)

\* C28: whenever a step opens the approval modal of a client, the admin-note
\* input of that client is empty.
NoteEmptyWhenModalOpens ==
    [][\A op \in Operators :
          ~showApprovalModal[op] /\ showApprovalModal'[op] => adminNotes'[op] = ""]_vars

-----------------------------------------------------------------------------
(* Chat view: the displayed messages *)

\* The lists a snapshot of thread t can have carried up to now: messages are
\* only ever added to a thread, so each is a non-empty prefix of its list.
SnapshotsOf(t) ==
    {SubSeq(MessagesList(t), 1, n) : n \in 1..Len(MessagesList(t))}

-----------------------------------------------------------------------------
(* The appointment list of the dashboard: sort *)

\* The key of row i of the sorted list.
SortedKey(i) == sortedAppointments[i][sortConfig.key]

\* The position in the input list of row i of the sorted list.
InputPosition(i) == sortedAppointments[i].id

\* C21: a header click on the active column flips its direction, a click on
\* another column makes it the active one with direction ascending, and every
\* column can be clicked; the sorted list holds each row of the input list
\* exactly once, no key comes before a smaller one when ascending or before a
\* larger one when descending, and rows with equal keys keep their input order.
SortHeaderClicks ==
    /\ [](/\ \A key \in SortKeys : ENABLED requestSort(key)
          /\ Len(sortedAppointments) = Len(ListAppointments)
          /\ \A k \in 1..Len(ListAppointments) :
                \E i \in 1..Len(sortedAppointments) :
                    /\ InputPosition(i) = k
                    /\ sortedAppointments[i] = ListAppointments[k]
          /\ \A i, j \in 1..Len(sortedAppointments) :
                i < j =>
                    /\ sortConfig.direction = "ascending" =>
                            ~StringLess(SortedKey(j), SortedKey(i))
                    /\ sortConfig.direction = "descending" =>
                            ~StringLess(SortedKey(i), SortedKey(j))
                    /\ SortedKey(i) = SortedKey(j) =>
                            InputPosition(i) < InputPosition(j))
    /\ [][sortConfig' # sortConfig =>
            /\ sortConfig'.key = sortConfig.key =>
                    sortConfig'.direction # sortConfig.direction
            /\ sortConfig'.key # sortConfig.key =>
                    sortConfig'.direction = "ascending"]_vars

\* The list is sorted by user name, descending, after two clicks on that
\* column: three rows in another order than fetched, two of them with the
\* same name.
SortedByNameDescending ==
    /\ sortConfig = [key |-> "userName", direction |-> "descending"]
    /\ Len(sortedAppointments) = 3
    /\ SortedKey(1) = SortedKey(2)
    /\ StringLess(SortedKey(3), SortedKey(2))
    /\ sortedAppointments # ListAppointments

-----------------------------------------------------------------------------
(* AdminDashboard: theme *)

\* C22: when the page is opened the theme is the stored one, or dark when
\* nothing is stored; while the page is open the stored value is the current
\* theme, which is light or dark; a toggle changes the theme to the other one,
\* so that two toggles give the theme before them; closing the page leaves the
\* stored value alone, and opening it again gives the theme it had last.
ThemePersistence ==
    /\ [](/\ running => localStorageTheme = Some(theme)
          /\ theme \in {"light", "dark"}
          /\ Toggled(theme) # theme
          /\ Toggled(Toggled(theme)) = theme
          /\ PageShown = Some("Settings") => ENABLED ToggleTheme)
    /\ [][/\ ~running /\ running' =>
                /\ localStorageTheme = Null => theme' = "dark"
                /\ localStorageTheme # Null =>
                        theme' = localStorageTheme[1] /\ theme' = theme
          /\ running /\ running' /\ theme' # theme => theme' = Toggled(theme)
          /\ running /\ ~running' =>
                theme' = theme /\ localStorageTheme' = localStorageTheme]_vars

\* The settings page with the light theme, which is also the stored one.
LightThemeStored ==
    /\ PageShown = Some("Settings")
    /\ theme = "light"
    /\ localStorageTheme = Some("light")

-----------------------------------------------------------------------------
(* AdminDashboard: authentication *)

\* C24: fetchData is called only in a step that sets user to the provider's
\* signed-in user; user and authIsReady change only by taking over what the
\* provider reports, and a sign-out is always reported; a page, the page
\* navigation and the theme toggle are there only with the layout, which is
\* rendered only when isAppReady and authIsReady hold and user is not null;
\* and when the provider has reported no user, the login page is rendered
\* once isAppReady holds and the preloader until then.
AuthenticationGate ==
    /\ [](/\ PageShown # Null => Screen = "layout"
          /\ Screen = "layout" =>
                running /\ isAppReady /\ authIsReady /\ user # Null
          /\ running /\ authIsReady /\ user = Null =>
                Screen = IF isAppReady THEN "login" ELSE "preloader"
          /\ running /\ user # authUser => ENABLED AuthStateChanged)
    /\ [][/\ Len(fetches') > Len(fetches) =>
                /\ Len(fetches') = Len(fetches) + 1
                /\ authUser # Null
                /\ user' = authUser
                /\ user # authUser
          /\ running /\ running' /\ <<user, authIsReady>>' # <<user, authIsReady>> =>
                user' = authUser /\ authIsReady'
          /\ running /\ running' /\ <<currentPage, theme>>' # <<currentPage, theme>> =>
                Screen = "layout"]_vars

\* The statement of C24 without the preloader: when the provider has
\* reported no user, the login page is rendered.
LoginPageWheneverNoUser ==
    running /\ authIsReady /\ user = Null => Screen = "login"

\* The login page after a sign-out: the records fetched while signed in are
\* still in memory.
SignedOutAtLogin ==
    /\ Screen = "login"
    /\ authUser = Null
    /\ dashboardUsers # << >>
    /\ dashboardAppointments # << >>

-----------------------------------------------------------------------------
(* AdminDashboard: the one-shot fetch *)

\* Fetch i awaits a read.
Pending(i) == i <= Len(fetches) /\ fetches[i].stage \in {"users", "appointments"}

\* Fetch i is over.
Settled(i) == i <= Len(fetches) /\ fetches[i].stage \in {"done", "failed"}

\* Every fetch that has started is over at some time, unless the page is
\* closed before, and the step that ends it leaves isLoadingData false.
FetchEnds ==
    /\ \A i \in 1..MaxFetches : Pending(i) ~> (Settled(i) \/ ~running)
    /\ [][\A i \in 1..MaxFetches :
              Pending(i) /\ Settled(i)' => ~isLoadingData']_vars

\* C30: a fetch that ended with a failed read has replaced neither record
\* set, and a fetch that ended without one has replaced both.
NoPartialUpdate ==
    \A i \in 1..Len(fetches) :
        /\ fetches[i].stage = "failed" => fetches[i].replaced = {}
        /\ fetches[i].stage = "done" =>
                fetches[i].replaced = {"users", "appointments"}

\* The users read has replaced the users, and the appointments read has
\* failed.
UsersReplacedAppointmentsFailed ==
    \E i \in 1..Len(fetches) :
        /\ fetches[i].stage = "failed"
        /\ fetches[i].replaced = {"users"}
        /\ dashboardUsers # << >>
        /\ dashboardAppointments = << >>
        /\ ~isLoadingData

====
